---- MODULE Spec2Model ----
(***************************************************************************)
(* Business-hours SLA evaluation of jira-bugs-metrics.                     *)
(*                                                                         *)
(* Instants are whole seconds counted from Sunday 2025-10-26T00:00:00Z,    *)
(* so that getUTCDay() of instant 0 is 0 (Sunday) exactly as in JavaScript *)
(* and the schedule start date 2025-10-31T00:00:00Z is day 5 (a Friday).   *)
(* Date arithmetic is exact; JavaScript's doubles are taken as exact too.  *)
(***************************************************************************)
EXTENDS Integers, Sequences, FiniteSets, TLC

VARIABLES
    managerOffset,  \* the utcOffset entries of MANAGER_TIMEZONES
    calOp,          \* last BusinessCalendar operation: "idle", "calc", "advance", "next"
    calStart,       \* its start instant
    calEnd,         \* its end instant
    calPerson,      \* its personName argument ("" models null)
    calResult,      \* what calculateBusinessMinutes returned
    calPrev,        \* what it returned before the end instant was advanced
    calNext,        \* what getNextBusinessHour returned
    shiftOp,        \* last ShiftAccountability operation: "idle", "find", "oncall"
    shifts,         \* the shift timeline fetched from the schedule
    shiftQuery,     \* the timestamp looked up
    shiftFound,     \* what the lookup returned
    kpiOp,          \* SLA evaluation: "idle", "loaded", "evaluated"
    ticket,         \* the ticket record of metricsData.metrics
    kpiNow,         \* new Date() at the evaluation
    slaResults,     \* the outcome records calculateSLAKPIs pushed
    metrics,        \* metricsData.metrics, the tickets handed to calculateSLAKPIs
    issue,          \* the Jira issue computeMetrics read (its changelog and comments)
    kpis,           \* what calculateSLAKPIs returned
    histOp,         \* KPI history: "idle", "saved", "compared", "quarterly"
    history,        \* the snapshots of kpi-history.json, newest first
    quarterly,      \* what getQuarterlyComparison returned
    comparison,     \* what comparePeriods of kpi.js returned
    kpisBefore,     \* the KPIs of the run before: <<>> or <<kpis>>
    catOp,          \* categorizeResponseTimes: "idle", "categorized"
    catResults,     \* the results handed to categorizeResponseTimes
    categories,     \* what categorizeResponseTimes returned
    batchOp,        \* a run of main(): "idle", "fetched", "done", "threw"
    batch,          \* the issues fetched, each with what the schedule answered
    fetchOp,        \* fetchIssues: "idle", "get", "post", "fallback", "returned", "threw"
    fetch           \* its configuration, locals and the requests it has sent

calVars == <<managerOffset, calOp, calStart, calEnd, calPerson, calResult, calPrev, calNext>>
shiftVars == <<shiftOp, shifts, shiftQuery, shiftFound>>
kpiVars == <<kpiOp, ticket, kpiNow, slaResults, metrics, issue, kpis>>
histVars == <<histOp, history, quarterly, comparison, kpisBefore>>
catVars == <<catOp, catResults, categories>>
batchVars == <<batchOp, batch>>
fetchVars == <<fetchOp, fetch>>
restVars == <<catVars, batchVars, fetchVars>>
notCalVars == <<shiftVars, kpiVars, histVars, restVars>>
notShiftVars == <<calVars, kpiVars, histVars, restVars>>
notKpiVars == <<calVars, shiftVars, histVars, restVars>>
vars == <<calVars, shiftVars, kpiVars, histVars, restVars>>

----------------------------------------------------------------------------
(* Units and Date accessors                                                *)

NULL == 0 - 1

\* a timestamp that does not parse (new Date of it is an Invalid Date), and
\* the NaN that arithmetic on it leaves
INVALID == 0 - 2
NAN == 0 - 3

SecondsPerMinute == 60
SecondsPerHour == 60 * SecondsPerMinute
SecondsPerDay == 24 * SecondsPerHour

\* day 0 is Sunday 26 October 2025: day 1 a Monday, day 6 a Saturday, day 8 the
\* Monday after
At(day, hour, minute) ==
    day * SecondsPerDay + hour * SecondsPerHour + minute * SecondsPerMinute

Min(a, b) == IF a < b THEN a ELSE b
Max(a, b) == IF a > b THEN a ELSE b

\* Date.prototype.getUTCDay: 0 = Sunday .. 6 = Saturday
getUTCDay(t) == (t \div SecondsPerDay) % 7
\* Date.prototype.getUTCHours
getUTCHours(t) == (t % SecondsPerDay) \div SecondsPerHour
\* date.setUTCHours(h, 0, 0, 0)
setUTCHours(t, h) == (t - (t % SecondsPerDay)) + h * SecondsPerHour
\* date.setUTCDate(date.getUTCDate() + 1); date.setUTCHours(h, 0, 0, 0)
nextDayAt(t, h) == setUTCHours(t + SecondsPerDay, h)

\* JavaScript's % : the remainder takes the sign of the dividend
JsRem(a, b) == IF a >= 0 THEN a % b ELSE 0 - ((0 - a) % b)

\* Math.round: the nearest integer, halves up; x is counted in seconds here and
\* the result in minutes
MathFloorMinutes(secs) == secs \div SecondsPerMinute
MathRoundMinutes(secs) ==
    IF secs >= 0 THEN (2 * secs + SecondsPerMinute) \div (2 * SecondsPerMinute)
    ELSE 0 - ((2 * (0 - secs) + SecondsPerMinute - 1) \div (2 * SecondsPerMinute))

----------------------------------------------------------------------------
(* Configuration                                                           *)

ON_CALL_MANAGERS ==
    {"Brad Goldberg", "Jeff Maciorowski", "Akshay Vijay Takkar", "Grigoriy Semenenko",
     "Randy Dahl", "Evgeniy Suhov", "Max Kuklin"}

DEFAULT_BUSINESS_HOURS == [start |-> 13, end |-> 22]

EST_OFFSET == -5

\* MANAGER_TIMEZONES[personName] is defined for the seven managers only
HasManagerTimezone(personName) == personName \in ON_CALL_MANAGERS

getPersonBusinessHours(personName) ==
    IF ~HasManagerTimezone(personName)
    THEN [start |-> DEFAULT_BUSINESS_HOURS.start, end |-> DEFAULT_BUSINESS_HOURS.end]
    ELSE [start |-> JsRem(JsRem(8 - managerOffset, 24) + 24, 24),
          end   |-> JsRem(JsRem(17 - managerOffset, 24) + 24, 24)]

\* hours = personName ? getPersonBusinessHours(personName) : DEFAULT_BUSINESS_HOURS
HoursFor(personName) ==
    IF personName = "" THEN DEFAULT_BUSINESS_HOURS ELSE getPersonBusinessHours(personName)

----------------------------------------------------------------------------
(* BusinessCalendar                                                        *)

isWeekendSundayOnly(t) == getUTCDay(t) = 0
isWeekend(t) == getUTCDay(t) = 0 \/ getUTCDay(t) = 6

isBusinessHours(t, personName) ==
    LET hour == getUTCHours(t)
        hours == HoursFor(personName)
    IN  IF hours.start < hours.end
        THEN hour >= hours.start /\ hour < hours.end
        ELSE hour >= hours.start \/ hour < hours.end

\* The bound on the depth of getNextBusinessHour's recursion that the model
\* follows; a call that needs more is reported with done = FALSE.
MaxRecursion == 9

\* while (isWeekend(result)) { next day at hours.start }
RECURSIVE SkipWeekend(_, _, _)
SkipWeekend(t, hours, days) ==
    IF isWeekend(t) THEN SkipWeekend(nextDayAt(t, hours.start), hours, days + 1)
    ELSE [result |-> t, days |-> days]

\* getNextBusinessHour, with the number of day advances made so far
RECURSIVE NextBusinessHourFrom(_, _, _, _)
NextBusinessHourFrom(date, hours, days, depth) ==
    LET w == SkipWeekend(date, hours, days)
        result == w.result
    IN  IF getUTCHours(result) >= hours.end
        THEN IF depth >= MaxRecursion
             THEN [result |-> nextDayAt(result, hours.start), days |-> w.days + 1, done |-> FALSE]
             ELSE NextBusinessHourFrom(nextDayAt(result, hours.start), hours, w.days + 1, depth + 1)
        ELSE IF getUTCHours(result) < hours.start
        THEN [result |-> setUTCHours(result, hours.start), days |-> w.days, done |-> TRUE]
        ELSE [result |-> result, days |-> w.days, done |-> TRUE]

getNextBusinessHour(date, personName) ==
    NextBusinessHourFrom(date, HoursFor(personName), 0, 0)

\* const segmentEnd = endDate < dayEnd ? endDate : dayEnd
SegmentEndToDayEnd(endDate, dayEnd) == dayEnd
SegmentEnd(endDate, dayEnd) == IF endDate < dayEnd THEN endDate ELSE dayEnd

\* segmentEnd - current, the numerator of minutesInSegment
SegmentSecondsSwapped(current, segmentEnd) == current - segmentEnd
SegmentSeconds(current, segmentEnd) == segmentEnd - current

\* The while loop of calculateBusinessMinutes: businessMinutes is kept in
\* seconds, iterations counts the passes through the loop.
RECURSIVE WalkDays(_, _, _, _, _)
WalkDays(current, endDate, hours, businessSeconds, iterations) ==
    IF ~(current < endDate)
    THEN [seconds |-> businessSeconds, iterations |-> iterations]
    ELSE IF isWeekend(current)
    THEN WalkDays(nextDayAt(current, hours.start), endDate, hours, businessSeconds, iterations + 1)
    ELSE IF getUTCHours(current) < hours.start
    THEN WalkDays(setUTCHours(current, hours.start), endDate, hours, businessSeconds, iterations + 1)
    ELSE IF getUTCHours(current) >= hours.end
    THEN WalkDays(nextDayAt(current, hours.start), endDate, hours, businessSeconds, iterations + 1)
    ELSE LET dayEnd == setUTCHours(current, hours.end)
             segmentEnd == SegmentEnd(endDate, dayEnd)
             moved == IF getUTCHours(segmentEnd) >= hours.end
                      THEN nextDayAt(segmentEnd, hours.start)
                      ELSE segmentEnd
         IN  WalkDays(moved, endDate, hours, businessSeconds + SegmentSeconds(current, segmentEnd),
                      iterations + 1)

\* calculateBusinessMinutes with what the checks need to see: threw is TRUE
\* when getNextBusinessHour did not return (its recursion has no end)
BusinessMinutesRun(start, end, personName) ==
    LET hours == HoursFor(personName)
        outside == isWeekend(start) \/ ~isBusinessHours(start, personName)
        nxt == IF outside THEN getNextBusinessHour(start, personName)
               ELSE [result |-> start, days |-> 0, done |-> TRUE]
    IN  IF ~nxt.done
        THEN [threw |-> TRUE, minutes |-> 0, iterations |-> 0, days |-> nxt.days]
        ELSE IF end < nxt.result
        THEN [threw |-> FALSE, minutes |-> 0, iterations |-> 0, days |-> nxt.days]
        ELSE LET w == WalkDays(nxt.result, end, hours, 0, 0)
             IN  [threw |-> FALSE, minutes |-> MathRoundMinutes(w.seconds),
                  iterations |-> w.iterations, days |-> nxt.days]

\* With an Invalid Date every comparison is false: getNextBusinessHour hands
\* the date back, endDate < current fails, the loop is not entered and
\* Math.round(0) is returned.
calculateBusinessMinutes(start, end, personName) ==
    IF start = INVALID \/ end = INVALID THEN 0
    ELSE BusinessMinutesRun(start, end, personName).minutes

\* (of an Invalid Date: not a weekend, not within business hours)
isOutsideBusinessHours(t, personName) ==
    IF t = INVALID THEN TRUE ELSE isWeekend(t) \/ ~isBusinessHours(t, personName)

----------------------------------------------------------------------------
(* Inputs of the BusinessCalendar checks                                   *)

MaxStartDay == 6

CalHours == 0 .. 23
CalMinutes == {0, 30, 59}
CalSeconds == {0, 29, 30}

CalStarts ==
    {d * SecondsPerDay + h * SecondsPerHour + m * SecondsPerMinute + s :
        d \in 0 .. MaxStartDay, h \in CalHours, m \in CalMinutes, s \in CalSeconds}

\* end - start, in seconds: backwards, empty, one minute, within a day, across
\* a night, across a weekend
CalSpans ==
    {0 - SecondsPerHour, 0, SecondsPerMinute, 30 * SecondsPerMinute, 90 * SecondsPerMinute,
     9 * SecondsPerHour, 13 * SecondsPerHour, SecondsPerDay, 2 * SecondsPerDay,
     3 * SecondsPerDay}

\* how far AdvanceEnd moves the end instant
CalAdvances == {30, SecondsPerMinute, 9 * SecondsPerHour, SecondsPerDay}

\* null, a manager with an entry in MANAGER_TIMEZONES, somebody without one
CalPersons == {"", "Brad Goldberg", "Manjeet Kumar Mahto"}

NoResult == [threw |-> FALSE, minutes |-> 0, iterations |-> 0, days |-> 0]
NoNext == [result |-> 0, days |-> 0, done |-> TRUE]

CalIdle ==
    /\ calOp = "idle"
    /\ calStart = 0
    /\ calEnd = 0
    /\ calPerson = ""
    /\ calResult = NoResult
    /\ calPrev = NoResult
    /\ calNext = NoNext

\* calculateBusinessMinutes(start, end, personName)
CalculateBusinessMinutes ==
    /\ calOp = "idle"
    /\ \E s \in CalStarts, d \in CalSpans, p \in CalPersons :
        /\ s + d >= 0
        /\ calOp' = "calc"
        /\ calStart' = s
        /\ calEnd' = s + d
        /\ calPerson' = p
        /\ calResult' = BusinessMinutesRun(s, s + d, p)
        /\ calPrev' = NoResult
        /\ calNext' = NoNext
        /\ UNCHANGED <<managerOffset, notCalVars>>

\* calculateBusinessMinutes again, same start and person, a later end
AdvanceEnd ==
    /\ calOp = "calc"
    /\ \E a \in CalAdvances :
        /\ calOp' = "advance"
        /\ calEnd' = calEnd + a
        /\ calPrev' = calResult
        /\ calResult' = BusinessMinutesRun(calStart, calEnd + a, calPerson)
        /\ UNCHANGED <<managerOffset, calStart, calPerson, calNext, notCalVars>>

\* getNextBusinessHour(date, personName)
NextBusinessHour ==
    /\ calOp = "idle"
    /\ \E s \in CalStarts, p \in CalPersons :
        /\ calOp' = "next"
        /\ calStart' = s
        /\ calEnd' = s
        /\ calPerson' = p
        /\ calNext' = getNextBusinessHour(s, p)
        /\ calResult' = NoResult
        /\ calPrev' = NoResult
        /\ UNCHANGED <<managerOffset, notCalVars>>


----------------------------------------------------------------------------
(* ShiftAccountability                                                     *)

\* new Date('2025-10-31T00:00:00Z'): day 5 of the model's calendar
scheduleStartDate == 5 * SecondsPerDay

Sentinel(name) == [person |-> name, recipientType |-> "none", shiftStart |-> NULL, shiftEnd |-> NULL]

\* date >= shiftStart && date <= shiftEnd
ShiftCovers(shift, date) == date >= shift.shiftStart /\ date <= shift.shiftEnd

\* the index of the first shift of the list that covers date, 0 when none does
RECURSIVE FirstCovering(_, _, _)
FirstCovering(list, date, i) ==
    IF i > Len(list) THEN 0
    ELSE IF ShiftCovers(list[i], date) THEN i
    ELSE FirstCovering(list, date, i + 1)

\* hourUTC >= 23 || hourUTC < 7
IsAfterHoursOffByOne(hourUTC) == hourUTC > 23 \/ hourUTC < 7
IsAfterHours(hourUTC) == hourUTC >= 23 \/ hourUTC < 7

findShiftAtTime(list, date) ==
    IF date < scheduleStartDate THEN Sentinel("[Before Oct 31]")
    ELSE LET i == FirstCovering(list, date, 1)
         IN  IF i > 0 THEN list[i]
             ELSE IF getUTCDay(date) = 0 \/ getUTCDay(date) = 6 THEN Sentinel("[Weekend]")
             ELSE IF IsAfterHours(getUTCHours(date)) THEN Sentinel("[After Hours]")
             ELSE Sentinel("[No Coverage]")

\* The body of getOnCallForTimestamps' loop over the timestamps: the entry
\* results.set(timestamp, { name, shiftStart, shiftEnd }) of one timestamp.
OnCallForTimestamp(list, date) ==
    LET i == FirstCovering(list, date, 1)
    IN  IF i > 0
        THEN [person |-> IF list[i].recipientType = "user" THEN list[i].person
                         ELSE "[" \o list[i].recipientType \o ": " \o list[i].person \o "]",
              recipientType |-> list[i].recipientType,
              shiftStart |-> list[i].shiftStart, shiftEnd |-> list[i].shiftEnd]
        ELSE IF date < scheduleStartDate THEN Sentinel("[Before Oct 31]")
        ELSE IF getUTCDay(date) = 0 \/ getUTCDay(date) = 6 THEN Sentinel("[Weekend]")
        ELSE IF IsAfterHours(getUTCHours(date)) THEN Sentinel("[After Hours]")
        ELSE Sentinel("[No Coverage]")

(* Inputs of the ShiftAccountability checks: days 3 and 4 (Wednesday 29 and  *)
(* Thursday 30 October) lie before the schedule start, day 5 is the Friday   *)
(* it starts on, days 6 and 7 the weekend, day 8 the Monday after.           *)

MaxShifts == 2

ShiftDays == 3 .. 8
QueryHours == {6, 7, 13, 17, 22, 23}
ShiftQueries == {d * SecondsPerDay + h * SecondsPerHour : d \in ShiftDays, h \in QueryHours}

Recipients ==
    {[person |-> "bgoldberg", recipientType |-> "user"],
     [person |-> "jmaciorowski", recipientType |-> "user"],
     [person |-> "Engineering", recipientType |-> "team"]}

\* day shifts 13-17, 17-22 and 13-22 on the days that have one, and the night
\* from Thursday 22:00 to Friday 07:00 that spans the schedule start
ShiftBounds ==
    {<<d * SecondsPerDay + a * SecondsPerHour, d * SecondsPerDay + b * SecondsPerHour>> :
        d \in {4, 5, 6, 8}, a \in {13, 17}, b \in {17, 22}}
    \cup {<<4 * SecondsPerDay + 22 * SecondsPerHour, 5 * SecondsPerDay + 7 * SecondsPerHour>>}

CandidateShifts ==
    {[person |-> r.person, recipientType |-> r.recipientType,
      shiftStart |-> b[1], shiftEnd |-> b[2]] : r \in Recipients, b \in {x \in ShiftBounds : x[1] < x[2]}}

\* ordered, non-overlapping timelines of at most MaxShifts shifts
RECURSIVE TimelinesOf(_)
TimelinesOf(n) ==
    IF n = 0 THEN {<<>>}
    ELSE LET shorter == TimelinesOf(n - 1)
         IN  shorter \cup
             {Append(tl, sh) : tl \in {x \in shorter : Len(x) = n - 1},
                               sh \in CandidateShifts} 

OrderedTimeline(tl) ==
    \A i \in 1 .. Len(tl) - 1 : tl[i].shiftEnd <= tl[i + 1].shiftStart

Timelines == {tl \in TimelinesOf(MaxShifts) : OrderedTimeline(tl)}

ShiftIdle ==
    /\ shiftOp = "idle"
    /\ shifts = <<>>
    /\ shiftQuery = 0
    /\ shiftFound = Sentinel("")

\* getScheduleTimeline: the timeline arrives from the scheduling service
GetScheduleTimeline ==
    /\ shiftOp = "idle"
    /\ \E tl \in Timelines :
        /\ shiftOp' = "timeline"
        /\ shifts' = tl
        /\ UNCHANGED <<shiftQuery, shiftFound, notShiftVars>>

\* findShiftAtTime(shifts, timestamp)
FindShiftAtTime ==
    /\ shiftOp = "timeline"
    /\ \E t \in ShiftQueries :
        /\ shiftOp' = "find"
        /\ shiftQuery' = t
        /\ shiftFound' = findShiftAtTime(shifts, t)
        /\ UNCHANGED <<shifts, notShiftVars>>

\* getOnCallForTimestamps(scheduleId, [timestamp], apiKey)
GetOnCallForTimestamps ==
    /\ shiftOp = "timeline"
    /\ \E t \in ShiftQueries :
        /\ shiftOp' = "oncall"
        /\ shiftQuery' = t
        /\ shiftFound' = OnCallForTimestamp(shifts, t)
        /\ UNCHANGED <<shifts, notShiftVars>>

----------------------------------------------------------------------------
(* SLAEvaluator: the tickets                                               *)

\* differenceInMinutes(b, a) of date-fns: whole minutes, truncated towards zero
\* (NaN when a timestamp does not parse: parseISO gives an Invalid Date and
\* nothing is thrown)
safeDiffMinutes(a, b) ==
    IF a = INVALID \/ b = INVALID THEN NAN
    ELSE IF b >= a THEN (b - a) \div SecondsPerMinute
    ELSE 0 - ((a - b) \div SecondsPerMinute)

\* (x - y) / (1000 * 60) for instants on the whole-minute grid
MinutesBetween(y, x) ==
    IF x = INVALID \/ y = INVALID THEN NAN ELSE (x - y) \div SecondsPerMinute

\* The durations computeMetrics derives from the times it found.
ComputedTicket(key, sla, created, firstOnCallActionTime, assigneeCurrent, firstAssignmentTime, firstAssigneeCommentTime, resolutionDate) ==
    LET \* no assignment in the changelog but a current assignee: assigned at creation
        assignedAt == IF firstAssignmentTime = NULL /\ assigneeCurrent # "" THEN created
                      ELSE firstAssignmentTime
    IN
    [key |-> key,
     sla |-> sla,
     created |-> created,
     firstOnCallActionTime |-> firstOnCallActionTime,
     timeToFirstOnCallActionMinutes |->
        IF firstOnCallActionTime # NULL THEN safeDiffMinutes(created, firstOnCallActionTime)
        ELSE NULL,
     businessHoursToFirstOnCallAction |->
        IF firstOnCallActionTime # NULL
        THEN calculateBusinessMinutes(created, firstOnCallActionTime, "")
        ELSE NULL,
     assigneeCurrent |-> assigneeCurrent,
     firstAssignmentTime |-> assignedAt,
     firstAssigneeCommentTime |-> firstAssigneeCommentTime,
     timeToFirstAssigneeCommentMinutes |->
        IF assignedAt # NULL /\ firstAssigneeCommentTime # NULL
        THEN safeDiffMinutes(assignedAt, firstAssigneeCommentTime)
        ELSE NULL,
     resolutionDate |-> resolutionDate,
     timeToResolutionMinutes |->
        IF resolutionDate # NULL THEN safeDiffMinutes(created, resolutionDate) ELSE NULL]

\* getOnCallAtTime of src/opsgenieClient.js, the lookup main() uses: only the
\* name of who was on call (or a gap sentinel) reaches the ticket, the schedule
\* service answering from the timeline it holds.
getOnCallAtTime(list, date) ==
    IF date < scheduleStartDate THEN "[Before Oct 31]"
    ELSE LET i == FirstCovering(list, date, 1)
         IN  IF i > 0 THEN list[i].person
             ELSE IF getUTCDay(date) = 0 \/ getUTCDay(date) = 6 THEN "[Weekend]"
             ELSE IF IsAfterHours(getUTCHours(date)) THEN "[After Hours]"
             ELSE "[No Coverage]"

\* main(): whoWasOnCall added to each metric; no shift boundaries
EnrichWithName(list, created) ==
    [whoWasOnCall |-> getOnCallAtTime(list, created),
     onCallShiftStart |-> NULL, onCallShiftEnd |-> NULL]

\* The index of the first shift of the list that starts after date, 0 when none
RECURSIVE FirstStartingAfter(_, _, _)
FirstStartingAfter(list, date, i) ==
    IF i > Len(list) THEN 0
    ELSE IF list[i].shiftStart > date THEN i
    ELSE FirstStartingAfter(list, date, i + 1)

\* The entry getOnCallForTimestamps of the timeline version holds for the
\* creation time (name, shiftStart, shiftEnd), copied to the ticket as
\* whoWasOnCall, onCallShiftStart and onCallShiftEnd.
EnrichWithShift(list, created) ==
    LET entry == OnCallForTimestamp(list, created)
    IN  [whoWasOnCall |-> entry.person,
         onCallShiftStart |-> entry.shiftStart, onCallShiftEnd |-> entry.shiftEnd]

\* A ticket queued while nobody was on call, matched to the shift that begins
\* next: the matched shift starts after the creation.
EnrichQueued(list, created) ==
    LET nxt == FirstStartingAfter(list, created, 1)
    IN  IF FirstCovering(list, created, 1) > 0 \/ nxt = 0 THEN {}
        ELSE {[whoWasOnCall |-> list[nxt].person,
               onCallShiftStart |-> list[nxt].shiftStart,
               onCallShiftEnd |-> list[nxt].shiftEnd]}

\* no schedule configured: whoWasOnCall is absent
NotEnriched == [whoWasOnCall |-> "", onCallShiftStart |-> NULL, onCallShiftEnd |-> NULL]

----------------------------------------------------------------------------
(* SLAEvaluator: calculateSLAKPIs                                          *)

emailToName(name) ==
    CASE name = "bgoldberg" -> "Brad Goldberg"
      [] name = "jmaciorowski" -> "Jeff Maciorowski"
      [] name = "atakkar" -> "Akshay Vijay Takkar"
      [] name = "gsemenenko" -> "Grigoriy Semenenko"
      [] name = "rdahl" -> "Randy Dahl"
      [] name = "esuhov" -> "Evgeniy Suhov"
      [] name = "mkuklin" -> "Max Kuklin"
      [] OTHER -> name

\* whoWasOnCall.startsWith('[')
startsWithBracket(name) == Len(name) > 0 /\ SubSeq(name, 1, 1) = "["

\* goalMinutes of sla[0]: goalDuration is in milliseconds; null counts as 0
goalMinutesOf(sla) ==
    IF sla[1].goalDuration = NULL THEN 0
    ELSE sla[1].goalDuration \div (1000 * SecondsPerMinute)

\* shiftStart && createdDate < shiftStart ? shiftStart : createdDate
AccountabilityStartAtCreation(createdDate, shiftStart) == createdDate
AccountabilityStart(createdDate, shiftStart) ==
    IF shiftStart # NULL /\ createdDate < shiftStart THEN shiftStart ELSE createdDate

\* (shiftEnd - accountabilityStart) / (1000 * 60)
ShiftDurationSwapped(shiftEnd, accountabilityStart) ==
    MinutesBetween(shiftEnd, accountabilityStart)
ShiftDurationMinutes(shiftEnd, accountabilityStart) ==
    MinutesBetween(accountabilityStart, shiftEnd)

\* ON_CALL_MANAGERS.includes(onCallPerson)
anyoneIsOnCallManager(onCallPerson) == TRUE
isOnCallManager(onCallPerson) == onCallPerson \in ON_CALL_MANAGERS

\* shiftEnd && now > shiftEnd, shiftEnd && responseDate > shiftEnd
ShiftEndedBeforeOrAt(shiftEnd, instant) == shiftEnd # NULL /\ instant >= shiftEnd
ShiftEndedBefore(shiftEnd, instant) == shiftEnd # NULL /\ instant > shiftEnd

\* met: false, in the two branches where the shift ended first
ForcedBreachMetByMinutes(businessMinutes, goalMinutes) == businessMinutes <= goalMinutes
ForcedBreachForgiven(businessMinutes, goalMinutes) == TRUE
ForcedBreachMet(businessMinutes, goalMinutes) == FALSE

\* createdDate < shiftStart, where a null shiftStart compares as 0
createdBeforeShift(createdDate, shiftStart) ==
    createdDate < (IF shiftStart = NULL THEN 0 ELSE shiftStart)

\* One record of slaResults. Of the record's fields createdContext (a label) and
\* the flags that repeat status (respondedAfterShift, respondedDuringShift,
\* hasComment) are left out; shiftEnded and createdBeforeShift are FALSE where
\* the code leaves them undefined.
Outcome(key, manager, role, met, responseMinutes, businessMinutes, actualMinutes, goalMinutes, outside, status, shiftEnded, beforeShift) ==
    [ticket |-> key, manager |-> manager, role |-> role, met |-> met,
     responseMinutes |-> responseMinutes, businessMinutes |-> businessMinutes,
     actualMinutes |-> actualMinutes, goalMinutes |-> goalMinutes,
     createdOutsideHours |-> outside, status |-> status,
     shiftEnded |-> shiftEnded, createdBeforeShift |-> beforeShift]

\* the on-call pathway of one ticket
OnCallResults(t, now, goalMinutes) ==
    LET whoWasOnCall == t.whoWasOnCall
        onCallPerson == emailToName(whoWasOnCall)
        onCallResponseMinutes == t.timeToFirstOnCallActionMinutes
        shiftStart == t.onCallShiftStart
        shiftEnd == t.onCallShiftEnd
        createdDate == t.created
        responseDate == t.firstOnCallActionTime
        outside == isOutsideBusinessHours(t.created, "")
        accountabilityStart == AccountabilityStart(createdDate, shiftStart)
        before == createdBeforeShift(createdDate, shiftStart)
    IN  IF whoWasOnCall = "" \/ startsWithBracket(whoWasOnCall) THEN <<>>
        ELSE IF ~isOnCallManager(onCallPerson) THEN <<>>
        ELSE IF onCallResponseMinutes = NULL
        THEN IF ShiftEndedBefore(shiftEnd, now)
             THEN LET shiftDurationMinutes == ShiftDurationMinutes(shiftEnd, accountabilityStart)
                  IN  <<Outcome(t.key, onCallPerson, "on-call",
                                ForcedBreachMet(shiftDurationMinutes, goalMinutes), NULL,
                                shiftDurationMinutes, MinutesBetween(createdDate, now),
                                goalMinutes, outside, "pending", TRUE, before)>>
             ELSE LET businessMinutes ==
                          calculateBusinessMinutes(accountabilityStart, now, onCallPerson)
                  IN  <<Outcome(t.key, onCallPerson, "on-call", businessMinutes <= goalMinutes,
                                NULL, businessMinutes, MinutesBetween(createdDate, now),
                                goalMinutes, outside, "pending", FALSE, before)>>
        ELSE IF ShiftEndedBefore(shiftEnd, responseDate)
             THEN LET shiftDurationMinutes == ShiftDurationMinutes(shiftEnd, accountabilityStart)
                  IN  <<Outcome(t.key, onCallPerson, "on-call",
                                ForcedBreachMet(shiftDurationMinutes, goalMinutes),
                                onCallResponseMinutes, shiftDurationMinutes,
                                onCallResponseMinutes, goalMinutes, outside,
                                "responded-after-shift", FALSE, before)>>
             ELSE LET effectiveResponseTime ==
                          IF ShiftEndedBefore(shiftEnd, responseDate) THEN shiftEnd
                          ELSE responseDate
                      businessMinutes ==
                          calculateBusinessMinutes(accountabilityStart, effectiveResponseTime,
                                                   onCallPerson)
                  IN  <<Outcome(t.key, onCallPerson, "on-call", businessMinutes <= goalMinutes,
                                onCallResponseMinutes, businessMinutes, onCallResponseMinutes,
                                goalMinutes, outside, "responded", FALSE, before)>>

\* if (ticket.resolutionDate)
ticketNeverResolved(resolutionDate) == FALSE
ticketResolved(resolutionDate) == resolutionDate # NULL

\* the assignee pathway of one ticket
AssigneeResults(t, now, goalMinutes) ==
    LET assignee == t.assigneeCurrent
        assigneeResponseMinutes == t.timeToFirstAssigneeCommentMinutes
        assignmentDate == t.firstAssignmentTime
        outside == isOutsideBusinessHours(t.firstAssignmentTime, "")
    IN  IF assignee = "" \/ t.firstAssignmentTime = NULL THEN <<>>
        ELSE IF assigneeResponseMinutes = NULL
        THEN IF ticketResolved(t.resolutionDate)
             THEN LET businessMinutes ==
                          calculateBusinessMinutes(assignmentDate, t.resolutionDate, assignee)
                      actualMinutes == MinutesBetween(assignmentDate, t.resolutionDate)
                  IN  <<Outcome(t.key, assignee, "assignee", businessMinutes <= goalMinutes,
                                actualMinutes, businessMinutes, actualMinutes, goalMinutes,
                                outside, "resolved-no-comment", FALSE, FALSE)>>
             ELSE LET businessMinutes == calculateBusinessMinutes(assignmentDate, now, assignee)
                      actualMinutes == MinutesBetween(assignmentDate, now)
                  IN  <<Outcome(t.key, assignee, "assignee", businessMinutes <= goalMinutes,
                                NULL, businessMinutes, actualMinutes, goalMinutes,
                                outside, "no-response", FALSE, FALSE)>>
        ELSE LET businessMinutes ==
                     calculateBusinessMinutes(assignmentDate, t.firstAssigneeCommentTime, assignee)
             IN  <<Outcome(t.key, assignee, "assignee", businessMinutes <= goalMinutes,
                           assigneeResponseMinutes, businessMinutes, assigneeResponseMinutes,
                           goalMinutes, outside, "responded", FALSE, FALSE)>>

\* the body of ticketsWithSLA.forEach, for a ticket of metrics
TicketResults(t, now) ==
    IF Len(t.sla) = 0 THEN <<>>
    ELSE LET goalMinutes == goalMinutesOf(t.sla)
         IN  OnCallResults(t, now, goalMinutes) \o AssigneeResults(t, now, goalMinutes)

----------------------------------------------------------------------------
(* Aggregator: the figures calculateSLAKPIs derives from slaResults        *)

\* A rate or an average as the code reports it: a number with one decimal
\* (kept in tenths), or 'N/A', or what a division by zero leaves in a number.
Number(tenths) == [kind |-> "number", tenths |-> tenths]
NotApplicable == [kind |-> "N/A", tenths |-> 0]
NotANumber == [kind |-> "NaN", tenths |-> 0]
Infinite == [kind |-> "Infinity", tenths |-> 0]

\* ((num / den) * 100).toFixed(1) for den > 0 and num >= 0, in tenths
PercentToFixed1(num, den) == (2 * 1000 * num + den) \div (2 * den)

\* the slaResults of all the tickets, in the order of metrics
RECURSIVE AllResults(_, _, _)
AllResults(list, now, i) ==
    IF i > Len(list) THEN <<>>
    ELSE TicketResults(list[i], now) \o AllResults(list, now, i + 1)

isMet(r) == r.met
isBreached(r) == ~r.met /\ r.status \in {"responded", "resolved"}
isPending(r) == r.status = "pending"
isOnCall(r) == r.role = "on-call"
isAssignee(r) == r.role = "assignee"

RECURSIVE SumBusinessMinutes(_, _)
SumBusinessMinutes(results, i) ==
    IF i > Len(results) THEN 0
    ELSE results[i].businessMinutes + SumBusinessMinutes(results, i + 1)

RECURSIVE MaxBusinessMinutes(_, _)
MaxBusinessMinutes(results, i) ==
    IF i > Len(results) THEN 0
    ELSE Max(results[i].businessMinutes, MaxBusinessMinutes(results, i + 1))

\* the longest response time in place of the average: a figure that cannot be
\* recomputed from totals
calculateMaxResponseTime(results) ==
    IF Len(results) = 0 THEN [kind |-> "N/A", hours |-> 0, minutes |-> 0]
    ELSE [kind |-> "time", hours |-> MaxBusinessMinutes(results, 1) \div 60,
          minutes |-> MaxBusinessMinutes(results, 1) % 60]

\* calculateAvgResponseTime: `${hours}h ${minutes}m` of the floored average
calculateAvgResponseTime(results) ==
    IF Len(results) = 0 THEN [kind |-> "N/A", hours |-> 0, minutes |-> 0]
    ELSE LET avg == SumBusinessMinutes(results, 1) \div Len(results)
         IN  [kind |-> "time", hours |-> avg \div 60, minutes |-> avg % 60]

\* complianceRate of overall: metCount over metrics.length
OverallComplianceRate(metCount, totalTickets) ==
    IF totalTickets > 0 THEN Number(PercentToFixed1(metCount, totalTickets)) ELSE Number(0)

\* onCallCompliance, assigneeCompliance: met over the number of outcomes of the role
RoleComplianceRate(metOfRole, resultsOfRole) ==
    IF resultsOfRole > 0 THEN Number(PercentToFixed1(metOfRole, resultsOfRole)) ELSE Number(0)

\* One pass of results.forEach over a per-actor table: total++, then the
\* status set aside ('pending', or 'no-response' for developers), met or breached.
RECURSIVE Tally(_, _, _, _)
Tally(results, aside, i, table) ==
    IF i > Len(results) THEN table
    ELSE LET r == results[i]
             old == IF r.manager \in DOMAIN table THEN table[r.manager]
                    ELSE [met |-> 0, breached |-> 0, aside |-> 0, total |-> 0]
             new == IF r.status = aside THEN [old EXCEPT !.total = @ + 1, !.aside = @ + 1]
                    ELSE IF r.met THEN [old EXCEPT !.total = @ + 1, !.met = @ + 1]
                    ELSE [old EXCEPT !.total = @ + 1, !.breached = @ + 1]
         IN  Tally(results, aside, i + 1,
                   IF r.manager \in DOMAIN table THEN [table EXCEPT ![r.manager] = new]
                   ELSE table @@ (r.manager :> new))

\* managerKPIs and onCallManagerKPIs: the rows by manager (the order the rows
\* are sorted into is not kept)
\* (averaged: the outcomes the average response time is taken over)
ManagerRows(results, averaged) ==
    LET table == Tally(results, "pending", 1, <<>>)
    IN  [mgr \in DOMAIN table |->
            [met |-> table[mgr].met, breached |-> table[mgr].breached,
             pending |-> table[mgr].aside, total |-> table[mgr].total,
             complianceRate |->
                IF table[mgr].total > 0
                THEN Number(PercentToFixed1(table[mgr].met, table[mgr].total))
                ELSE Number(0),
             avgResponseTime |->
                calculateAvgResponseTime(
                    SelectSeq(averaged, LAMBDA r : r.manager = mgr))]]

respondedOrResolved(r) == r.status \in {"responded", "resolved"}

\* Object.entries(managerPerformance): the managers in the order they first
\* appear in the results
RECURSIVE managersInOrder(_, _)
managersInOrder(results, i) ==
    IF i = 0 THEN <<>>
    ELSE LET before == managersInOrder(results, i - 1)
         IN  IF \E j \in 1 .. (i - 1) : results[j].manager = results[i].manager
             THEN before
             ELSE Append(before, results[i].manager)

\* .sort((a, b) => b.complianceRate - a.complianceRate): highest rate first,
\* rows of equal rate left in the order they had (the sort is stable)
RECURSIVE sortByRate(_, _, _)
sortByRate(rows, order, i) ==
    IF i = 0 THEN <<>>
    ELSE LET sorted == sortByRate(rows, order, i - 1)
             mine == rows[order[i]].complianceRate.tenths
             ahead == SelectSeq(sorted, LAMBDA m : rows[m].complianceRate.tenths >= mine)
             behind == SelectSeq(sorted, LAMBDA m : rows[m].complianceRate.tenths < mine)
         IN  ahead \o <<order[i]>> \o behind

\* the managers of managerKPIs (or onCallManagerKPIs) in the order of the array
managersByRate(rows, results) ==
    sortByRate(rows, managersInOrder(results, Len(results)), Len(managersInOrder(results, Len(results))))

\* allTicketsByAssignee: all tickets with an assignee and an assignment time
RECURSIVE AssigneeStats(_, _, _)
AssigneeStats(list, i, table) ==
    IF i > Len(list) THEN table
    ELSE LET t == list[i]
             a == t.assigneeCurrent
             old == IF a \in DOMAIN table THEN table[a]
                    ELSE [totalAssigned |-> 0, withComment |-> 0, withoutComment |-> 0,
                          resolved |-> 0, stillOpen |-> 0,
                          responseTimes |-> <<>>, resolutionTimes |-> <<>>]
             commented == t.firstAssigneeCommentTime # NULL
             isResolved == t.resolutionDate # NULL
             new == [totalAssigned |-> old.totalAssigned + 1,
                     withComment |-> old.withComment + (IF commented THEN 1 ELSE 0),
                     withoutComment |-> old.withoutComment + (IF commented THEN 0 ELSE 1),
                     resolved |-> old.resolved + (IF isResolved THEN 1 ELSE 0),
                     stillOpen |-> old.stillOpen + (IF isResolved THEN 0 ELSE 1),
                     responseTimes |->
                        IF commented /\ t.timeToFirstAssigneeCommentMinutes # NULL
                        THEN Append(old.responseTimes, t.timeToFirstAssigneeCommentMinutes)
                        ELSE old.responseTimes,
                     resolutionTimes |->
                        IF isResolved /\ t.timeToResolutionMinutes # NULL
                        THEN Append(old.resolutionTimes, t.timeToResolutionMinutes)
                        ELSE old.resolutionTimes]
         IN  IF a = "" \/ t.firstAssignmentTime = NULL THEN AssigneeStats(list, i + 1, table)
             ELSE AssigneeStats(list, i + 1,
                                IF a \in DOMAIN table THEN [table EXCEPT ![a] = new]
                                ELSE table @@ (a :> new))

RECURSIVE SumOf(_, _)
SumOf(numbers, i) == IF i > Len(numbers) THEN 0 ELSE numbers[i] + SumOf(numbers, i + 1)

\* formatMinutes of the average of the times, 'N/A' when there is none; the
\* average is kept in whole minutes, which is all formatMinutes shows
formatAverage(times) ==
    IF Len(times) = 0 THEN [kind |-> "N/A", days |-> 0, hours |-> 0, minutes |-> 0]
    ELSE IF \E i \in 1 .. Len(times) : times[i] = NAN
    THEN [kind |-> "NaN", days |-> 0, hours |-> 0, minutes |-> 0]
    ELSE LET avg == SumOf(times, 1) \div Len(times)
             hours == avg \div 60
         IN  IF hours \div 24 > 0
             THEN [kind |-> "time", days |-> hours \div 24, hours |-> hours % 24, minutes |-> 0]
             ELSE [kind |-> "time", days |-> 0, hours |-> hours, minutes |-> avg % 60]

\* developerKPIs: the rows by developer
DeveloperRows(list, assigneeResults) ==
    LET stats == AssigneeStats(list, 1, <<>>)
        developerPerformance == Tally(assigneeResults, "no-response", 1, <<>>)
    IN  [developer \in DOMAIN stats |->
            LET slaStats == IF developer \in DOMAIN developerPerformance
                            THEN developerPerformance[developer]
                            ELSE [met |-> 0, breached |-> 0, aside |-> 0, total |-> 0]
            IN  [totalAssigned |-> stats[developer].totalAssigned,
                 withComment |-> stats[developer].withComment,
                 withoutComment |-> stats[developer].withoutComment,
                 noCommentRate |->
                    Number(PercentToFixed1(stats[developer].withoutComment,
                                           stats[developer].totalAssigned)),
                 resolved |-> stats[developer].resolved,
                 stillOpen |-> stats[developer].stillOpen,
                 resolutionRate |->
                    Number(PercentToFixed1(stats[developer].resolved,
                                           stats[developer].totalAssigned)),
                 slaCompliance |->
                    IF slaStats.total > 0
                    THEN Number(PercentToFixed1(slaStats.met, slaStats.total))
                    ELSE NotApplicable,
                 slaMet |-> slaStats.met,
                 slaBreached |-> slaStats.breached,
                 slaNoResponse |-> slaStats.aside,
                 avgResponseTime |-> formatAverage(stats[developer].responseTimes),
                 avgResolutionTime |-> formatAverage(stats[developer].resolutionTimes)]]

\* The bucket of a ticket in analyzeByDayOfWeek (getDay) and in
\* analyzeByHourOfDay (getHours), the process running in UTC.
dayBucket(t) == getUTCDay(t.created)
hourBucket(t) == getUTCHours(t.created)
dayBuckets(list) == [i \in 1 .. Len(list) |-> dayBucket(list[i])]
hourBuckets(list) == [i \in 1 .. Len(list) |-> hourBucket(list[i])]

\* analyzeByDayOfWeek, analyzeByHourOfDay: total++ for every ticket, then met or
\* breached by businessHoursToFirstOnCallAction <= goalMinutes when the ticket
\* has an SLA entry and that figure
RECURSIVE TimeAnalysis(_, _, _, _)
TimeAnalysis(list, buckets, i, table) ==
    IF i > Len(list) THEN table
    ELSE LET m == list[i]
             b == buckets[i]
             old == IF b \in DOMAIN table THEN table[b]
                    ELSE [total |-> 0, met |-> 0, breached |-> 0]
             judged == Len(m.sla) > 0 /\ m.businessHoursToFirstOnCallAction # NULL
             goalMinutes == IF m.sla[1].goalDuration = NULL THEN 0
                            ELSE m.sla[1].goalDuration \div (1000 * SecondsPerMinute)
             new == IF ~judged THEN [old EXCEPT !.total = @ + 1]
                    ELSE IF m.businessHoursToFirstOnCallAction <= goalMinutes
                    THEN [old EXCEPT !.total = @ + 1, !.met = @ + 1]
                    ELSE [old EXCEPT !.total = @ + 1, !.breached = @ + 1]
         IN  TimeAnalysis(list, buckets, i + 1,
                          IF b \in DOMAIN table THEN [table EXCEPT ![b] = new]
                          ELSE table @@ (b :> new))

TimeRows(list, buckets) ==
    LET table == TimeAnalysis(list, buckets, 1, <<>>)
    IN  [b \in DOMAIN table |->
            [total |-> table[b].total, met |-> table[b].met, breached |-> table[b].breached,
             complianceRate |->
                IF table[b].total > 0
                THEN Number(PercentToFixed1(table[b].met, table[b].total))
                ELSE Number(0)]]

\* categorizeResponseTimes: minutes is businessMinutes unless that is null or
\* undefined, then responseMinutes
businessMinutesOnly(r) == r.businessMinutes
minutesOf(r) == IF r.businessMinutes # NULL THEN r.businessMinutes ELSE r.responseMinutes

categorizeResponseTimes(results) ==
    [noResponse |-> Len(SelectSeq(results, LAMBDA r : minutesOf(r) = NULL)),
     under1h |-> Len(SelectSeq(results, LAMBDA r : minutesOf(r) # NULL /\ minutesOf(r) < 60)),
     from1to2h |-> Len(SelectSeq(results, LAMBDA r : minutesOf(r) >= 60 /\ minutesOf(r) < 120)),
     from2to4h |-> Len(SelectSeq(results, LAMBDA r : minutesOf(r) >= 120 /\ minutesOf(r) < 240)),
     from4to8h |-> Len(SelectSeq(results, LAMBDA r : minutesOf(r) >= 240 /\ minutesOf(r) < 480)),
     over8h |-> Len(SelectSeq(results, LAMBDA r : minutesOf(r) >= 480))]

\* the object calculateSLAKPIs returns (details is slaResults)
KPIsOf(list, results) ==
    LET totalTickets == Len(list)
        onCallResults == SelectSeq(results, isOnCall)
        assigneeResults == SelectSeq(results, isAssignee)
    IN  [overall |->
            [totalTickets |-> totalTickets,
             metSLA |-> Len(SelectSeq(results, isMet)),
             breachedSLA |-> Len(SelectSeq(results, isBreached)),
             pendingSLA |-> Len(SelectSeq(results, isPending)),
             complianceRate |-> OverallComplianceRate(Len(SelectSeq(results, isMet)), totalTickets),
             avgResponseTime |->
                calculateAvgResponseTime(SelectSeq(results, LAMBDA r : r.status = "responded"))],
         onCall |->
            [totalTickets |-> Len(onCallResults),
             metSLA |-> Len(SelectSeq(onCallResults, isMet)),
             breachedSLA |-> Len(SelectSeq(onCallResults, isBreached)),
             pendingSLA |-> Len(SelectSeq(onCallResults, isPending)),
             complianceRate |->
                RoleComplianceRate(Len(SelectSeq(onCallResults, isMet)), Len(onCallResults)),
             avgResponseTime |->
                calculateAvgResponseTime(
                    SelectSeq(onCallResults, LAMBDA r : r.status = "responded"))],
         assignee |->
            [totalTickets |-> Len(assigneeResults),
             metSLA |-> Len(SelectSeq(assigneeResults, isMet)),
             breachedSLA |-> Len(SelectSeq(assigneeResults, isBreached)),
             pendingSLA |-> Len(SelectSeq(assigneeResults, isPending)),
             complianceRate |->
                RoleComplianceRate(Len(SelectSeq(assigneeResults, isMet)), Len(assigneeResults)),
             avgResponseTime |->
                calculateAvgResponseTime(SelectSeq(assigneeResults, respondedOrResolved))],
         managerKPIs |-> ManagerRows(results, results),
         onCallManagerKPIs |-> ManagerRows(onCallResults, SelectSeq(onCallResults, respondedOrResolved)),
         developerKPIs |-> DeveloperRows(list, assigneeResults),
         byDayOfWeek |-> TimeRows(list, dayBuckets(list)),
         byHourOfDay |-> TimeRows(list, hourBuckets(list)),
         responseTimeDistribution |-> categorizeResponseTimes(results)]

----------------------------------------------------------------------------
(* SLAEvaluator: the tickets evaluated                                     *)

\* The shift timeline of the week of Monday 3 November 2025 (day 8): Monday
\* 13:00-22:00, Tuesday 15:00-19:00, Tuesday 19:00-22:00 held by somebody
\* who is not on the roster, and Wednesday 07:00-23:00, the whole coverage
\* window of the schedule.
KpiTimeline ==
    <<[person |-> "bgoldberg", recipientType |-> "user",
       shiftStart |-> At(8, 13, 0), shiftEnd |-> At(8, 22, 0)],
      [person |-> "jmaciorowski", recipientType |-> "user",
       shiftStart |-> At(9, 15, 0), shiftEnd |-> At(9, 19, 0)],
      [person |-> "contractor", recipientType |-> "user",
       shiftStart |-> At(9, 19, 0), shiftEnd |-> At(9, 22, 0)],
      [person |-> "rdahl", recipientType |-> "user",
       shiftStart |-> At(10, 7, 0), shiftEnd |-> At(10, 23, 0)]>>

KpiCreated ==
    {At(6, 10, 0), At(8, 10, 0), At(8, 13, 0), At(8, 15, 0), At(8, 21, 30),
     At(9, 14, 0), At(9, 16, 0), At(9, 20, 0), At(10, 10, 0)}

\* minutes from the creation to the first action of an SLA responder
ResponseDelays == {30, 90, 300, 990, 3150}

\* ticket.sla: absent, a goal of 4 hours, of 1 hour, and a goalDuration of null
\* and of 0
SlaChoices ==
    {<<>>,
     <<[goalDuration |-> 240 * 1000 * SecondsPerMinute]>>,
     <<[goalDuration |-> 60 * 1000 * SecondsPerMinute]>>,
     <<[goalDuration |-> NULL]>>,
     <<[goalDuration |-> 0]>>}

\* the assignee, and the minutes from the creation to the first assignment, to
\* the assignee's first comment and to the resolution (NULL: there is none)
AssigneeChoices ==
    {[assignee |-> "", assigned |-> NULL, commented |-> NULL, resolved |-> NULL],
     [assignee |-> "Manjeet Kumar Mahto", assigned |-> NULL, commented |-> NULL, resolved |-> NULL],
     [assignee |-> "Manjeet Kumar Mahto", assigned |-> 60, commented |-> NULL, resolved |-> NULL],
     [assignee |-> "Manjeet Kumar Mahto", assigned |-> 60, commented |-> 120, resolved |-> NULL],
     [assignee |-> "Manjeet Kumar Mahto", assigned |-> 60, commented |-> NULL, resolved |-> 600],
     [assignee |-> "Brad Goldberg", assigned |-> 0, commented |-> 30, resolved |-> 600]}

KpiNows == {At(8, 16, 0), At(8, 23, 0), At(9, 16, 30), At(12, 12, 0)}

Later(created, minutes) ==
    IF minutes = NULL THEN NULL ELSE created + minutes * SecondsPerMinute

\* what reaches the ticket about who was on call
Enrichments(created) ==
    {NotEnriched, EnrichWithName(KpiTimeline, created), EnrichWithShift(KpiTimeline, created)}
        \cup EnrichQueued(KpiTimeline, created)

NoIssue ==
    [key |-> "", sla |-> <<>>, created |-> 0, assignee |-> "", resolutionDate |-> NULL,
     histories |-> <<>>, comments |-> <<>>]

NoTicket ==
    ComputedTicket("", <<>>, 0, NULL, "", NULL, NULL, NULL) @@ NotEnriched

KpiIdle ==
    /\ kpiOp = "idle"
    /\ ticket = NoTicket
    /\ kpiNow = 0
    /\ slaResults = <<>>
    /\ metrics = <<>>
    /\ issue = NoIssue
    /\ kpis = <<>>

\* computeMetrics and the enrichment: a ticket of metricsData.metrics
LoadTicket ==
    /\ kpiOp = "idle"
    /\ \E created \in KpiCreated, delay \in ResponseDelays \cup {NULL},
          sla \in SlaChoices, a \in AssigneeChoices :
          \E e \in Enrichments(created) :
             ticket' = ComputedTicket("SUP-1", sla, created, Later(created, delay),
                                      a.assignee, Later(created, a.assigned),
                                      Later(created, a.commented),
                                      Later(created, a.resolved)) @@ e
    /\ metrics' = <<ticket'>>
    /\ kpiOp' = "loaded"
    /\ UNCHANGED <<kpiNow, slaResults, issue, kpis, notKpiVars>>

\* the latest instant the ticket records
LatestOf(t) ==
    Max(Max(t.created, t.firstOnCallActionTime),
        Max(Max(t.firstAssignmentTime, t.firstAssigneeCommentTime), t.resolutionDate))

\* calculateSLAKPIs(metricsData), run at any later time
CalculateSLAKPIs ==
    /\ kpiOp = "loaded"
    /\ \E now \in KpiNows :
          /\ \A i \in 1 .. Len(metrics) : now >= LatestOf(metrics[i])
          /\ now >= kpiNow
          /\ kpiNow' = now
          /\ slaResults' = AllResults(metrics, now, 1)
          /\ kpis' = KPIsOf(metrics, slaResults')
    /\ kpiOp' = "evaluated"
    /\ UNCHANGED <<ticket, metrics, issue, notKpiVars>>

\* the next run of the program over the same metricsData: what the last run
\* wrote stays on disk until calculateSLAKPIs replaces it
EvaluateAgain ==
    /\ kpiOp = "evaluated"
    /\ kpiOp' = "loaded"
    /\ UNCHANGED <<ticket, kpiNow, slaResults, metrics, issue, kpis, notKpiVars>>

----------------------------------------------------------------------------
(* computeMetrics: the times read from an issue's changelog and comments   *)

\* constants.js: the people whose actions count as an SLA response
SLA_RESPONDERS == ON_CALL_MANAGERS \cup {"Manjeet Kumar Mahto", "Mitali Goel"}

\* One loop over history entries or comments that keeps the earliest time of
\* an entry whose author is one of `allowed`.
RECURSIVE EarliestBy(_, _, _, _)
EarliestBy(entries, i, allowed, best) ==
    IF i > Len(entries) THEN best
    ELSE IF entries[i].author \notin allowed THEN EarliestBy(entries, i + 1, allowed, best)
    ELSE IF best = NULL \/ entries[i].at < best
         THEN EarliestBy(entries, i + 1, allowed, entries[i].at)
         ELSE EarliestBy(entries, i + 1, allowed, best)

\* firstOnCallActionTime: assignments made by on-call managers, then their comments
firstOnCallActionTimeOf(histories, comments) ==
    EarliestBy(comments, 1, ON_CALL_MANAGERS,
               EarliestBy(histories, 1, ON_CALL_MANAGERS, NULL))

\* firstAssignmentTime: the changelog is newest first and is read from its end
firstAssignmentTimeOf(histories) ==
    IF Len(histories) = 0 THEN NULL ELSE histories[Len(histories)].at

\* firstAssigneeCommentTime: the first comment of the assignee at or after the
\* assignment
RECURSIVE firstAssigneeCommentTimeOf(_, _, _, _)
firstAssigneeCommentTimeOf(comments, assignee, assignedAt, i) ==
    IF assignee = "" \/ assignedAt = NULL \/ i > Len(comments) THEN NULL
    ELSE IF comments[i].author = assignee /\ comments[i].at >= assignedAt THEN comments[i].at
    ELSE firstAssigneeCommentTimeOf(comments, assignee, assignedAt, i + 1)

\* computeMetrics(issue); every history entry of the model is an assignee change
computeMetrics(i) ==
    LET assignedAt == IF firstAssignmentTimeOf(i.histories) = NULL /\ i.assignee # ""
                      THEN i.created
                      ELSE firstAssignmentTimeOf(i.histories)
    IN  ComputedTicket(i.key, i.sla, i.created,
                       firstOnCallActionTimeOf(i.histories, i.comments),
                       i.assignee, assignedAt,
                       firstAssigneeCommentTimeOf(i.comments, i.assignee, assignedAt, 1),
                       i.resolutionDate)

MaxActions == 2

\* who acts on an issue: an on-call manager, an engineer whose actions count
\* as an SLA response, and somebody of neither group
Actors == {"Brad Goldberg", "Manjeet Kumar Mahto", "Customer Support"}

\* minutes from the creation to an action
ActionDelays == {30, 90}

\* the entries in the order of time, at most MaxActions of them
RECURSIVE EntriesAfter(_, _, _)
EntriesAfter(created, after, n) ==
    IF n = 0 THEN {<<>>}
    ELSE {<<>>} \cup
         UNION {{<<[author |-> a, at |-> created + d * SecondsPerMinute]>> \o rest :
                    rest \in EntriesAfter(created, d, n - 1)} :
                a \in Actors, d \in {x \in ActionDelays : x > after}}

Reversed(entries) == [k \in 1 .. Len(entries) |-> entries[Len(entries) + 1 - k]]

IssueCreated == {At(6, 10, 0), At(8, 13, 0)}

\* main(): issues.map(computeMetrics) and the enrichment, for one issue
ComputeMetrics ==
    /\ kpiOp = "idle"
    /\ \E created \in IssueCreated, assignee \in {"", "Manjeet Kumar Mahto"},
          sla \in {<<>>, <<[goalDuration |-> 240 * 1000 * SecondsPerMinute]>>} :
          \E h \in EntriesAfter(created, 0, MaxActions),
             c \in EntriesAfter(created, 0, MaxActions),
             e \in Enrichments(created) :
             /\ issue' = [key |-> "SUP-1", sla |-> sla, created |-> created,
                          assignee |-> assignee, resolutionDate |-> NULL,
                          histories |-> Reversed(h), comments |-> c]
             /\ ticket' = computeMetrics(issue') @@ e
    /\ metrics' = <<ticket'>>
    /\ kpiOp' = "loaded"
    /\ UNCHANGED <<kpiNow, slaResults, kpis, notKpiVars>>

----------------------------------------------------------------------------
(* Aggregator: several tickets evaluated together                          *)

MaxTickets == 3

FourHours == <<[goalDuration |-> 240 * 1000 * SecondsPerMinute]>>

\* The tickets of a week: answered in time, answered late, answered after the
\* shift, not answered, created in a gap, without an SLA entry, answered by the
\* on-call manager and by the owner, on call somebody off the roster, and an
\* SLA entry without a goal.
TicketPool ==
    <<ComputedTicket("SUP-1", FourHours, At(8, 13, 0), At(8, 13, 30), "", NULL, NULL, NULL)
          @@ EnrichWithShift(KpiTimeline, At(8, 13, 0)),
      ComputedTicket("SUP-2", FourHours, At(8, 15, 0), At(8, 20, 0), "Manjeet Kumar Mahto",
                     At(8, 16, 0), At(8, 17, 0), NULL)
          @@ EnrichWithShift(KpiTimeline, At(8, 15, 0)),
      ComputedTicket("SUP-3", FourHours, At(8, 21, 30), At(9, 14, 0), "", NULL, NULL, NULL)
          @@ EnrichWithShift(KpiTimeline, At(8, 21, 30)),
      ComputedTicket("SUP-4", FourHours, At(8, 13, 0), NULL, "Manjeet Kumar Mahto",
                     At(8, 14, 0), NULL, NULL)
          @@ EnrichWithName(KpiTimeline, At(8, 13, 0)),
      ComputedTicket("SUP-5", FourHours, At(6, 10, 0), At(8, 14, 30), "Manjeet Kumar Mahto",
                     At(6, 11, 0), At(6, 12, 0), NULL)
          @@ EnrichWithName(KpiTimeline, At(6, 10, 0)),
      ComputedTicket("SUP-6", <<>>, At(9, 16, 0), At(9, 16, 30), "Brad Goldberg",
                     NULL, At(9, 16, 30), At(10, 2, 0))
          @@ EnrichWithShift(KpiTimeline, At(9, 16, 0)),
      ComputedTicket("SUP-7", FourHours, At(9, 16, 0), At(9, 16, 30), "Brad Goldberg",
                     NULL, At(9, 16, 30), At(10, 2, 0))
          @@ EnrichWithShift(KpiTimeline, At(9, 16, 0)),
      ComputedTicket("SUP-8", FourHours, At(9, 20, 0), NULL, "Manjeet Kumar Mahto",
                     At(9, 21, 0), NULL, At(10, 6, 0))
          @@ EnrichWithShift(KpiTimeline, At(9, 20, 0)),
      ComputedTicket("SUP-9", <<[goalDuration |-> NULL]>>, At(8, 15, 0), At(8, 16, 30), "",
                     NULL, NULL, NULL)
          @@ EnrichWithName(KpiTimeline, At(8, 15, 0))>>

\* the tickets of the pool whose index is in `chosen`, in the pool's order
RECURSIVE Chosen(_, _)
Chosen(chosen, i) ==
    IF i > Len(TicketPool) THEN <<>>
    ELSE IF i \in chosen THEN <<TicketPool[i]>> \o Chosen(chosen, i + 1)
    ELSE Chosen(chosen, i + 1)

\* main(): the metrics of a run, at most MaxTickets tickets
LoadMetrics ==
    /\ kpiOp = "idle"
    /\ \E chosen \in SUBSET (1 .. Len(TicketPool)) :
          /\ Cardinality(chosen) <= MaxTickets
          /\ metrics' = Chosen(chosen, 1)
    /\ kpiOp' = "loaded"
    /\ UNCHANGED <<ticket, kpiNow, slaResults, issue, kpis, notKpiVars>>

\* A ticket of metricsData.metrics with a timestamp that does not parse: the
\* first on-call action, the first assignment or the assignee's first comment.
DamagedTimes(created) == {NULL, INVALID, created + 30 * SecondsPerMinute}

LoadDamagedTicket ==
    /\ kpiOp = "idle"
    /\ \E created \in {At(8, 13, 0), At(8, 15, 0), At(9, 16, 0)},
          assignee \in {"", "Manjeet Kumar Mahto"}, resolved \in {NULL, 600} :
          \E acted \in DamagedTimes(created), assigned \in DamagedTimes(created),
             commented \in DamagedTimes(created) :
             \E e \in Enrichments(created) :
                /\ INVALID \in {acted, assigned, commented}
                /\ ticket' = ComputedTicket("SUP-1", FourHours, created, acted, assignee,
                                            assigned, commented, Later(created, resolved)) @@ e
    /\ metrics' = <<ticket'>>
    /\ kpiOp' = "loaded"
    /\ UNCHANGED <<kpiNow, slaResults, issue, kpis, notKpiVars>>

----------------------------------------------------------------------------
(* KPI history: snapshots, quarterly comparison, period comparison         *)

MaxSnapshots == 2
MaxSaves == 3
MaxWeeks == 52
MaxResaves == 1

\* history.snapshots.slice(0, 50)
KeepLast == 50

NegInfinite == [kind |-> "-Infinity", tenths |-> 0]

\* ((num / den) * 100).toFixed(1) for any num and den >= 0: a division by zero
\* leaves NaN or an infinity, and toFixed prints it as such
JsPercent(num, den) ==
    IF den = 0
    THEN IF num = 0 THEN NotANumber ELSE IF num > 0 THEN Infinite ELSE NegInfinite
    ELSE IF num >= 0 THEN Number(PercentToFixed1(num, den))
    ELSE Number(0 - PercentToFixed1(0 - num, den))

\* the metrics of the runs whose KPIs are saved and compared: no ticket, or
\* one ticket
RunMetrics == {<<>>, <<TicketPool[1]>>, <<TicketPool[2]>>}

\* the periods of the runs and the quarter their start falls in
Periods ==
    {[start |-> "2025-07-01", end |-> "2025-09-30"],
     [start |-> "2025-10-01", end |-> "2025-10-31"],
     [start |-> "2025-11-01", end |-> "2025-11-30"]}

\* `${year}-Q${Math.floor(date.getMonth() / 3) + 1}` of period.start
\* (getFullYear and getMonth read the process's time zone: UTC here)
QuarterOf(start) ==
    CASE start = "2025-07-01" -> "2025-Q3"
      [] start = "2025-10-01" -> "2025-Q4"
      [] start = "2025-11-01" -> "2025-Q4"

\* the quarters in the order localeCompare sorts them
QuartersInOrder == <<"2025-Q3", "2025-Q4">>

\* managerKPIs[0] after the sort by complianceRate, highest first: the manager
\* whose rate is highest, the one met first in slaResults among equals
MaxRate(rows) ==
    CHOOSE t \in {rows[a].complianceRate.tenths : a \in DOMAIN rows} :
        \A a \in DOMAIN rows : rows[a].complianceRate.tenths <= t

topPerformerOf(k, details) ==
    LET rows == k.managerKPIs
        first == CHOOSE i \in 1 .. Len(details) :
                    /\ rows[details[i].manager].complianceRate.tenths = MaxRate(rows)
                    /\ \A j \in 1 .. (i - 1) :
                          rows[details[j].manager].complianceRate.tenths # MaxRate(rows)
    IN  IF DOMAIN rows = {} THEN "" ELSE details[first].manager

\* the snapshot saveKPISnapshot stores for the KPIs k (details: their slaResults)
SnapshotOf(k, details, period, timestamp) ==
    [timestamp |-> timestamp,
     period |-> period,
     kpis |-> [overall |-> k.overall,
               managerCount |-> Cardinality(DOMAIN k.managerKPIs),
               topPerformer |-> topPerformerOf(k, details),
               topPerformerRate |->
                  IF DOMAIN k.managerKPIs = {} THEN NULL ELSE MaxRate(k.managerKPIs)]]

samePeriod(s, period) == s.period.start = period.start /\ s.period.end = period.end

\* new Date() at a save: later than at every save before (0: no save yet)
RECURSIVE newestTimestamp(_, _)
newestTimestamp(snapshots, i) ==
    IF i > Len(snapshots) THEN 0
    ELSE Max(snapshots[i].timestamp, newestTimestamp(snapshots, i + 1))

\* findIndex by period, then the snapshot replaces that entry or is pushed
replaceOrPush(snapshots, snapshot) ==
    LET found == {i \in 1 .. Len(snapshots) : samePeriod(snapshots[i], snapshot.period)}
    IN  IF found # {}
        THEN [snapshots EXCEPT ![CHOOSE i \in found : \A j \in found : i <= j] = snapshot]
        ELSE Append(snapshots, snapshot)

\* the place of x in a list sorted newest first: behind the entries that are
\* not older (the sort is stable)
RECURSIVE placeOf(_, _, _)
placeOf(sorted, x, j) ==
    IF j >= 1 /\ sorted[j].timestamp < x.timestamp THEN placeOf(sorted, x, j - 1) ELSE j

keepOrder(snapshots, i, sorted) == snapshots

\* snapshots.sort((a, b) => new Date(b.timestamp) - new Date(a.timestamp))
RECURSIVE sortNewestFirst(_, _, _)
sortNewestFirst(snapshots, i, sorted) ==
    IF i > Len(snapshots) THEN sorted
    ELSE LET j == placeOf(sorted, snapshots[i], Len(sorted))
         IN  sortNewestFirst(snapshots, i + 1,
                             SubSeq(sorted, 1, j) \o <<snapshots[i]>>
                                 \o SubSeq(sorted, j + 1, Len(sorted)))

\* The snapshot replaces the one of the same period or is added; the list is
\* sorted by timestamp, newest first, and cut to its first 50 entries.
SavedHistory(snapshots, snapshot) ==
    LET sorted == sortNewestFirst(replaceOrPush(snapshots, snapshot), 1, <<>>)
    IN  IF Len(sorted) > KeepLast THEN SubSeq(sorted, 1, KeepLast) ELSE sorted

RECURSIVE SumComplianceTenths(_, _)
SumComplianceTenths(snapshots, i) ==
    IF i > Len(snapshots) THEN 0
    ELSE snapshots[i].kpis.overall.complianceRate.tenths + SumComplianceTenths(snapshots, i + 1)

RECURSIVE SumTotalTickets(_, _)
SumTotalTickets(snapshots, i) ==
    IF i > Len(snapshots) THEN 0
    ELSE snapshots[i].kpis.overall.totalTickets + SumTotalTickets(snapshots, i + 1)

\* quarterlyStats of one quarter: avgCompliance.toFixed(1) in tenths,
\* avgTickets.toFixed(0)
QuarterStats(quarter, snapshots) ==
    [quarter |-> quarter,
     avgCompliance |->
        (2 * SumComplianceTenths(snapshots, 1) + Len(snapshots)) \div (2 * Len(snapshots)),
     totalTickets |-> SumTotalTickets(snapshots, 1),
     avgTickets |->
        (2 * SumTotalTickets(snapshots, 1) + Len(snapshots)) \div (2 * Len(snapshots)),
     snapshotCount |-> Len(snapshots)]

\* the stats of the quarters that have snapshots, sorted by quarter
RECURSIVE QuarterlyStats(_, _)
QuarterlyStats(snapshots, q) ==
    IF q > Len(QuartersInOrder) THEN <<>>
    ELSE LET mine == SelectSeq(snapshots,
                               LAMBDA s : QuarterOf(s.period.start) = QuartersInOrder[q])
         IN  (IF Len(mine) = 0 THEN <<>> ELSE <<QuarterStats(QuartersInOrder[q], mine)>>)
                 \o QuarterlyStats(snapshots, q + 1)

\* trends: each quarter against the one before it
Trends(stats) ==
    [i \in 1 .. (Len(stats) - 1) |->
        LET current == stats[i + 1]
            previous == stats[i]
            complianceChange == current.avgCompliance - previous.avgCompliance
            ticketChange == current.avgTickets - previous.avgTickets
        IN  [from |-> previous.quarter, to |-> current.quarter,
             complianceChange |-> complianceChange,
             improved |-> complianceChange > 0,
             ticketChange |-> ticketChange,
             ticketGrowth |-> JsPercent(ticketChange, previous.avgTickets)]]

\* getQuarterlyComparison: null (an empty sequence) with fewer than 2 snapshots
getQuarterlyComparison(snapshots) ==
    IF Len(snapshots) < 2 THEN <<>>
    ELSE <<[quarters |-> QuarterlyStats(snapshots, 1),
            trends |-> Trends(QuarterlyStats(snapshots, 1))]>>

\* compareManagers: the managers of the current KPIs found in the previous ones
compareManagers(current, previous) ==
    [mgr \in DOMAIN current \cap DOMAIN previous |->
        [currentRate |-> current[mgr].complianceRate,
         previousRate |-> previous[mgr].complianceRate,
         change |-> current[mgr].complianceRate.tenths - previous[mgr].complianceRate.tenths,
         improved |->
            current[mgr].complianceRate.tenths - previous[mgr].complianceRate.tenths >= 0]]

\* comparePeriods of kpi.js; previousKPIs is <<>> for none, <<kpis>> otherwise
comparePeriods(currentKPIs, previousKPIs) ==
    IF Len(previousKPIs) = 0
    THEN [hasPrevious |-> FALSE, complianceChange |-> 0, complianceImprovement |-> FALSE,
          ticketChange |-> 0, ticketGrowth |-> Number(0), managerComparison |-> <<>>]
    ELSE LET prev == previousKPIs[1]
             complianceChange == currentKPIs.overall.complianceRate.tenths
                                    - prev.overall.complianceRate.tenths
             ticketChange == currentKPIs.overall.totalTickets - prev.overall.totalTickets
         IN  [hasPrevious |-> TRUE,
              complianceChange |-> complianceChange,
              complianceImprovement |-> complianceChange > 0,
              ticketChange |-> ticketChange,
              ticketGrowth |-> JsPercent(ticketChange, prev.overall.totalTickets),
              managerComparison |-> compareManagers(currentKPIs.managerKPIs, prev.managerKPIs)]

HistIdle ==
    /\ histOp = "idle"
    /\ history = <<>>
    /\ quarterly = <<>>
    /\ comparison = <<>>
    /\ kpisBefore = <<>>

\* main(): the metrics of a run whose KPIs go to the history
LoadRun ==
    /\ kpiOp = "idle"
    /\ \E list \in RunMetrics : metrics' = list
    /\ kpiOp' = "loaded"
    /\ UNCHANGED <<ticket, kpiNow, slaResults, issue, kpis, notKpiVars>>

\* saveKPISnapshot(kpis, period) at the end of main()
SaveKPISnapshot ==
    /\ kpiOp = "evaluated"
    /\ histOp = "idle"
    /\ newestTimestamp(history, 1) < MaxSaves
    /\ \E period \in Periods :
          LET snapshot == SnapshotOf(kpis, slaResults, period, newestTimestamp(history, 1) + 1)
          IN  /\ Len(SavedHistory(history, snapshot)) <= MaxSnapshots
              /\ history' = SavedHistory(history, snapshot)
    /\ histOp' = "saved"
    /\ UNCHANGED <<quarterly, comparison, kpisBefore, kpiVars, calVars, shiftVars, restVars>>

\* comparePeriods(currentKPIs, previousKPIs) of kpi.js: the KPIs of this run
\* against those of the run before
ComparePeriods ==
    /\ kpiOp = "evaluated"
    /\ histOp = "saved"
    /\ comparison' = comparePeriods(kpis, kpisBefore)
    /\ histOp' = "compared"
    /\ UNCHANGED <<history, quarterly, kpisBefore, kpiVars, calVars, shiftVars, restVars>>

\* getQuarterlyComparison() over the history file
GetQuarterlyComparison ==
    /\ histOp = "saved"
    /\ quarterly' = getQuarterlyComparison(history)
    /\ histOp' = "quarterly"
    /\ UNCHANGED <<history, comparison, kpisBefore, kpiVars, calVars, shiftVars, restVars>>

\* The process ends; the next run starts with the history file as it is and
\* the KPIs of this run as the previous ones.
NextRun ==
    /\ histOp \in {"saved", "compared", "quarterly"}
    /\ kpisBefore' = <<kpis>>
    /\ histOp' = "idle"
    /\ quarterly' = <<>>
    /\ comparison' = <<>>
    /\ kpiOp' = "idle"
    /\ kpiNow' = 0
    /\ slaResults' = <<>>
    /\ metrics' = <<>>
    /\ kpis' = <<>>
    /\ UNCHANGED <<history, ticket, issue, calVars, shiftVars, restVars>>

\* Weekly periods, as the numbers of the days they start and end on
WeekPeriod(w) == [start |-> 7 * w, end |-> 7 * w + 6]

RECURSIVE latestWeek(_, _)
latestWeek(snapshots, i) ==
    IF i > Len(snapshots) THEN 0
    ELSE Max(snapshots[i].period.start \div 7, latestWeek(snapshots, i + 1))

\* the KPIs of a run that found no ticket
EmptyRunKPIs == KPIsOf(<<>>, <<>>)

\* saveKPISnapshot(kpis, period) for the week after the latest one stored
SaveNextWeek ==
    /\ histOp \in {"idle", "saved"}
    /\ latestWeek(history, 1) < MaxWeeks
    /\ history' = SavedHistory(history,
                       SnapshotOf(EmptyRunKPIs, <<>>, WeekPeriod(latestWeek(history, 1) + 1),
                                  newestTimestamp(history, 1) + 1))
    /\ histOp' = "saved"
    /\ UNCHANGED <<quarterly, comparison, kpisBefore, kpiVars, calVars, shiftVars, restVars>>

\* saveKPISnapshot(kpis, period) for a period that is stored: the newest or
\* the oldest entry
SaveWeekAgain ==
    /\ histOp = "saved"
    /\ newestTimestamp(history, 1) - latestWeek(history, 1) < MaxResaves
    /\ \E i \in {1, Len(history)} :
          history' = SavedHistory(history,
                         SnapshotOf(EmptyRunKPIs, <<>>, history[i].period,
                                    newestTimestamp(history, 1) + 1))
    /\ histOp' = "saved"
    /\ UNCHANGED <<quarterly, comparison, kpisBefore, kpiVars, calVars, shiftVars, restVars>>

----------------------------------------------------------------------------
(* categorizeResponseTimes on its own                                      *)

MaxOutcomes == 2

\* businessMinutes and responseMinutes of a result: absent, or at and around
\* the bucket limits
MinuteChoices == {NULL, 0, 59, 60, 119, 120, 239, 240, 479, 480}
ResponseChoices == {NULL, 30, 500}

CatOutcomes == [businessMinutes : MinuteChoices, responseMinutes : ResponseChoices]

RECURSIVE SequencesUpTo(_, _)
SequencesUpTo(S, n) ==
    IF n = 0 THEN {<<>>}
    ELSE SequencesUpTo(S, n - 1) \cup [1 .. n -> S]

CatIdle ==
    /\ catOp = "idle"
    /\ catResults = <<>>
    /\ categories = <<>>

BatchIdle ==
    /\ batchOp = "idle"
    /\ batch = <<>>

NotFetching ==
    [projectKey |-> FALSE, maxIssues |-> 0, useChangelog |-> TRUE, startAt |-> 0,
     all |-> 0, log |-> <<>>]

FetchIdle ==
    /\ fetchOp = "idle"
    /\ fetch = NotFetching

RestIdle == CatIdle /\ BatchIdle /\ FetchIdle

\* categorizeResponseTimes(results)
CategorizeResponseTimes ==
    /\ catOp = "idle"
    /\ \E results \in SequencesUpTo(CatOutcomes, MaxOutcomes) :
          /\ catResults' = results
          /\ categories' = categorizeResponseTimes(results)
    /\ catOp' = "categorized"
    /\ UNCHANGED <<calVars, shiftVars, kpiVars, histVars, batchVars, fetchVars>>

----------------------------------------------------------------------------
(* main(): a batch of issues, one of them malformed                        *)

MaxBatch == 3

\* a whoWasOnCall that is not a string (an object, a number)
NotAString == "<not a string>"

\* for (const item of h.items): a history entry without an items list is not
\* iterable and computeMetrics throws
historyHasItems(h) == IF "items" \in DOMAIN h THEN h.items ELSE TRUE
computeMetricsThrows(i) ==
    \E k \in 1 .. Len(i.histories) : ~historyHasItems(i.histories[k])

\* whoWasOnCall && !whoWasOnCall.startsWith('['), for the tickets with an SLA
\* entry: startsWith is not a function of a value that is not a string
calculateSLAKPIsThrows(list) ==
    \E k \in 1 .. Len(list) : Len(list[k].sla) > 0 /\ list[k].whoWasOnCall = NotAString

BatchIssue(key, sla, created, assignee, histories, comments) ==
    [key |-> key, sla |-> sla, created |-> created, assignee |-> assignee,
     resolutionDate |-> NULL, histories |-> histories, comments |-> comments]

\* The issues of a run with what the schedule answered for each: answered by
\* the on-call manager, assigned and answered by the owner, the same with a
\* history entry without items, one whose whoWasOnCall is not a string, and one
\* without an SLA entry.
BatchPool ==
    <<[issue |-> BatchIssue("B-1", FourHours, At(8, 13, 0), "", <<>>,
                            <<[author |-> "Brad Goldberg", at |-> At(8, 13, 30)]>>),
       whoWasOnCall |-> getOnCallAtTime(KpiTimeline, At(8, 13, 0))],
      [issue |-> BatchIssue("B-2", FourHours, At(8, 15, 0), "Manjeet Kumar Mahto",
                            <<[author |-> "Brad Goldberg", at |-> At(8, 15, 30), items |-> TRUE]>>,
                            <<[author |-> "Manjeet Kumar Mahto", at |-> At(8, 16, 30)]>>),
       whoWasOnCall |-> getOnCallAtTime(KpiTimeline, At(8, 15, 0))],
      [issue |-> BatchIssue("B-3", FourHours, At(8, 15, 0), "Manjeet Kumar Mahto",
                            <<[author |-> "Brad Goldberg", at |-> At(8, 15, 30), items |-> FALSE]>>,
                            <<[author |-> "Manjeet Kumar Mahto", at |-> At(8, 16, 30)]>>),
       whoWasOnCall |-> getOnCallAtTime(KpiTimeline, At(8, 15, 0))],
      [issue |-> BatchIssue("B-4", FourHours, At(8, 14, 0), "", <<>>,
                            <<[author |-> "Brad Goldberg", at |-> At(8, 14, 30)]>>),
       whoWasOnCall |-> NotAString],
      [issue |-> BatchIssue("B-5", <<>>, At(8, 14, 0), "Manjeet Kumar Mahto", <<>>, <<>>),
       whoWasOnCall |-> getOnCallAtTime(KpiTimeline, At(8, 14, 0))]>>

\* the issues in the order the search returned them
BatchOf(order) == [k \in 1 .. Len(order) |-> BatchPool[order[k]]]

\* issues.map(computeMetrics), then whoWasOnCall added to each metric
MetricsOfBatch(b) ==
    [k \in 1 .. Len(b) |->
        computeMetrics(b[k].issue)
            @@ [whoWasOnCall |-> b[k].whoWasOnCall,
                onCallShiftStart |-> NULL, onCallShiftEnd |-> NULL]]

\* fetchIssues: the issues main() works on, at most MaxBatch
FetchBatch ==
    /\ batchOp = "idle"
    /\ \E order \in SequencesUpTo(1 .. Len(BatchPool), MaxBatch) :
          /\ \A i, j \in 1 .. Len(order) : order[i] = order[j] => i = j
          /\ batch' = BatchOf(order)
    /\ batchOp' = "fetched"
    /\ UNCHANGED <<calVars, shiftVars, kpiVars, histVars, catVars, fetchVars>>

\* main() from issues.map(computeMetrics) to calculateSLAKPIs: an exception of
\* either ends the run in main().catch
Main ==
    /\ batchOp = "fetched"
    /\ \E now \in {At(8, 23, 0), At(12, 12, 0)} :
          IF \E k \in 1 .. Len(batch) : computeMetricsThrows(batch[k].issue)
          THEN /\ batchOp' = "threw"
               /\ UNCHANGED <<kpiOp, kpiNow, metrics, slaResults, kpis>>
          ELSE IF calculateSLAKPIsThrows(MetricsOfBatch(batch))
          THEN /\ batchOp' = "threw"
               /\ metrics' = MetricsOfBatch(batch)
               /\ UNCHANGED <<kpiOp, kpiNow, slaResults, kpis>>
          ELSE /\ batchOp' = "done"
               /\ metrics' = MetricsOfBatch(batch)
               /\ kpiNow' = now
               /\ slaResults' = AllResults(metrics', now, 1)
               /\ kpis' = KPIsOf(metrics', slaResults')
               /\ kpiOp' = "evaluated"
    /\ UNCHANGED <<batch, ticket, issue, calVars, shiftVars, histVars, catVars, fetchVars>>

----------------------------------------------------------------------------
(* fetchIssues: the search, its retries and the service desk fallback      *)

\* const pageSize = 50
PageSize == 50

\* what the server answers a search with: the status, and for 200 the total
Statuses == {200, 400, 410, 500}
Totals == {0, 30, 80}

\* JIRA_MAX_ISSUES: not set (0), or a number
MaxIssuesChoices == {0, 60}

\* maxResults of the page asked for
maxResultsOf(f) ==
    LET remaining == IF f.maxIssues # 0 THEN Max(0, f.maxIssues - f.all) ELSE PageSize
    IN  IF remaining # 0 /\ remaining < PageSize THEN remaining ELSE PageSize

Request(method, url, changelog, status) ==
    [method |-> method, url |-> url, changelog |-> changelog, status |-> status]

Logged(f, method, url, status) ==
    [f EXCEPT !.log = Append(@, Request(method, url, f.useChangelog, status))]

\* if (all.length === 0) and JIRA_PROJECT_KEY: the fallback, else return all
afterLoop(f) == IF f.all = 0 /\ f.projectKey THEN "fallback" ELSE "returned"

\* return all, in the branch of a 410 after all attempts
returnAll(f) == "returned"

\* a page of data: all.concat(data.issues), then the two breaks or the next page
pageRead(f, total) ==
    LET maxResults == maxResultsOf(f)
        served == Min(maxResults, Max(0, total - f.startAt))
        g == [f EXCEPT !.all = @ + served]
    IN  IF g.maxIssues # 0 /\ g.all >= g.maxIssues THEN [op |-> afterLoop(g), f |-> g]
        ELSE IF g.startAt + maxResults >= total THEN [op |-> afterLoop(g), f |-> g]
        ELSE [op |-> "get", f |-> [g EXCEPT !.startAt = @ + maxResults]]

\* fetchIssues({}) is called
FetchIssues ==
    /\ fetchOp = "idle"
    /\ \E projectKey \in BOOLEAN, maxIssues \in MaxIssuesChoices :
          fetch' = [NotFetching EXCEPT !.projectKey = projectKey, !.maxIssues = maxIssues]
    /\ fetchOp' = "get"
    /\ UNCHANGED <<calVars, shiftVars, kpiVars, histVars, catVars, batchVars>>

\* axios.get(url, { headers, params }) and what follows its answer
GetSearch ==
    /\ fetchOp = "get"
    /\ \E status \in Statuses, total \in Totals :
          LET f == Logged(fetch, "GET", "/rest/api/3/search", status)
          IN  IF status = 200
              THEN /\ fetch' = pageRead(f, total).f
                   /\ fetchOp' = pageRead(f, total).op
              ELSE IF status = 410
              THEN /\ fetch' = f
                   /\ fetchOp' = "post"
              ELSE IF status >= 400 /\ status < 500 /\ f.useChangelog
              THEN /\ fetch' = [f EXCEPT !.useChangelog = FALSE]
                   /\ fetchOp' = "get"
              ELSE /\ fetch' = f
                   /\ fetchOp' = "threw"
    /\ UNCHANGED <<calVars, shiftVars, kpiVars, histVars, catVars, batchVars>>

\* axios.post(url, body, { headers }) after a 410 and what follows its answer
PostSearch ==
    /\ fetchOp = "post"
    /\ \E status \in Statuses, total \in Totals :
          LET f == Logged(fetch, "POST", "/rest/api/3/search", status)
          IN  IF status = 200
              THEN /\ fetch' = pageRead(f, total).f
                   /\ fetchOp' = pageRead(f, total).op
              ELSE IF status = 410 /\ f.useChangelog
              THEN /\ fetch' = [f EXCEPT !.useChangelog = FALSE]
                   /\ fetchOp' = "get"
              ELSE IF status = 410
              THEN /\ fetch' = f
                   /\ fetchOp' = returnAll(f)
              ELSE /\ fetch' = f
                   /\ fetchOp' = "threw"
    /\ UNCHANGED <<calVars, shiftVars, kpiVars, histVars, catVars, batchVars>>

\* the request to /rest/servicedeskapi/request: its values are returned as
\* issues; without values, or when it fails, all is returned
ServiceDeskFallback ==
    /\ fetchOp = "fallback"
    /\ \E status \in Statuses, values \in {0, 2} :
          LET f == Logged(fetch, "GET", "/rest/servicedeskapi/request", status)
          IN  fetch' = IF status = 200 THEN [f EXCEPT !.all = values] ELSE f
    /\ fetchOp' = "returned"
    /\ UNCHANGED <<calVars, shiftVars, kpiVars, histVars, catVars, batchVars>>

----------------------------------------------------------------------------
(* Specifications                                                          *)

Init ==
    /\ managerOffset = EST_OFFSET
    /\ CalIdle
    /\ ShiftIdle
    /\ KpiIdle
    /\ HistIdle
    /\ RestIdle

Next ==
    \/ CalculateBusinessMinutes
    \/ AdvanceEnd
    \/ NextBusinessHour

Spec == Init /\ [][Next]_vars

\* The calendar with MANAGER_TIMEZONES edited: the utcOffset of the managers is
\* any of these, which gives windows that end at midnight or wrap past it
\* (utcOffset <= -7 or >= 9) as well as windows inside one UTC day.
TzOffsets == {0 - 8, 0 - 7, EST_OFFSET, 0, 5, 9}

InitTz ==
    /\ managerOffset \in TzOffsets
    /\ CalIdle
    /\ ShiftIdle
    /\ KpiIdle
    /\ HistIdle
    /\ RestIdle

NextTz ==
    \/ CalculateBusinessMinutes
    \/ NextBusinessHour

SpecTz == InitTz /\ [][NextTz]_vars

InitShift ==
    /\ managerOffset = EST_OFFSET
    /\ CalIdle
    /\ ShiftIdle
    /\ KpiIdle
    /\ HistIdle
    /\ RestIdle

NextShift ==
    \/ GetScheduleTimeline
    \/ FindShiftAtTime
    \/ GetOnCallForTimestamps

SpecShift == InitShift /\ [][NextShift]_vars

\* The SLA evaluation of a ticket, or else the calendar called directly: one of
\* the two in a behaviour.
InitKPI ==
    /\ managerOffset = EST_OFFSET
    /\ CalIdle
    /\ ShiftIdle
    /\ KpiIdle
    /\ HistIdle
    /\ RestIdle

NextKPI ==
    \/ (calOp = "idle" /\ LoadTicket)
    \/ CalculateSLAKPIs
    \/ (kpiOp = "idle" /\ CalculateBusinessMinutes)

SpecKPI == InitKPI /\ [][NextKPI]_vars

\* An issue read by computeMetrics, enriched and evaluated.
InitIssue ==
    /\ managerOffset = EST_OFFSET
    /\ CalIdle
    /\ ShiftIdle
    /\ KpiIdle
    /\ HistIdle
    /\ RestIdle

NextIssue ==
    \/ ComputeMetrics
    \/ CalculateSLAKPIs

SpecIssue == InitIssue /\ [][NextIssue]_vars

\* The tickets of a run evaluated together.
InitAgg ==
    /\ managerOffset = EST_OFFSET
    /\ CalIdle
    /\ ShiftIdle
    /\ KpiIdle
    /\ HistIdle
    /\ RestIdle

NextAgg ==
    \/ LoadMetrics
    \/ CalculateSLAKPIs

SpecAgg == InitAgg /\ [][NextAgg]_vars

\* The SLA evaluation of a ticket with a timestamp that does not parse.
InitDamaged ==
    /\ managerOffset = EST_OFFSET
    /\ CalIdle
    /\ ShiftIdle
    /\ KpiIdle
    /\ HistIdle
    /\ RestIdle

NextDamaged ==
    \/ LoadDamagedTicket
    \/ CalculateSLAKPIs

SpecDamaged == InitDamaged /\ [][NextDamaged]_vars

\* The KPIs of runs saved to the history and compared.
InitHistory ==
    /\ managerOffset = EST_OFFSET
    /\ CalIdle
    /\ ShiftIdle
    /\ KpiIdle
    /\ HistIdle
    /\ RestIdle

NextHistory ==
    \/ LoadRun
    \/ CalculateSLAKPIs
    \/ SaveKPISnapshot
    \/ ComparePeriods
    \/ GetQuarterlyComparison
    \/ NextRun

SpecHistory == InitHistory /\ [][NextHistory]_vars

\* A ticket evaluated at one time and again at later times.
InitLater ==
    /\ managerOffset = EST_OFFSET
    /\ CalIdle
    /\ ShiftIdle
    /\ KpiIdle
    /\ HistIdle
    /\ RestIdle

NextLater ==
    \/ LoadTicket
    \/ CalculateSLAKPIs
    \/ EvaluateAgain

SpecLater == InitLater /\ [][NextLater]_vars

\* saveKPISnapshot week after week, from an empty history.
InitSnapshots ==
    /\ managerOffset = EST_OFFSET
    /\ CalIdle
    /\ ShiftIdle
    /\ KpiIdle
    /\ HistIdle
    /\ RestIdle

NextSnapshots ==
    \/ SaveNextWeek
    \/ SaveWeekAgain

SpecSnapshots == InitSnapshots /\ [][NextSnapshots]_vars

\* fetchIssues against a server that answers as it likes.
InitFetch ==
    /\ managerOffset = EST_OFFSET
    /\ CalIdle
    /\ ShiftIdle
    /\ KpiIdle
    /\ HistIdle
    /\ RestIdle

NextFetch ==
    \/ FetchIssues
    \/ GetSearch
    \/ PostSearch
    \/ ServiceDeskFallback

SpecFetch == InitFetch /\ [][NextFetch]_vars

\* A run of main() over a batch of issues.
InitBatch ==
    /\ managerOffset = EST_OFFSET
    /\ CalIdle
    /\ ShiftIdle
    /\ KpiIdle
    /\ HistIdle
    /\ RestIdle

NextBatch ==
    \/ FetchBatch
    \/ Main

SpecBatch == InitBatch /\ [][NextBatch]_vars

\* categorizeResponseTimes over results drawn from CatOutcomes.
InitCategorize ==
    /\ managerOffset = EST_OFFSET
    /\ CalIdle
    /\ ShiftIdle
    /\ KpiIdle
    /\ HistIdle
    /\ RestIdle

NextCategorize == CategorizeResponseTimes

SpecCategorize == InitCategorize /\ [][NextCategorize]_vars

----------------------------------------------------------------------------
(* What the claims speak of, stated without the calendar's own code        *)

OnMinuteGrid(t) == t % SecondsPerMinute = 0

\* Monday to Friday (UTC) and the hour inside the person's window
IsWorkingInstant(t, personName) ==
    LET day == (t \div SecondsPerDay) % 7
        hour == (t % SecondsPerDay) \div SecondsPerHour
        w == HoursFor(personName)
    IN  /\ day \in 1 .. 5
        /\ IF w.start < w.end THEN hour \in w.start .. (w.end - 1)
           ELSE hour \in (w.start .. 23) \cup (0 .. (w.end - 1))

\* the number of whole minutes m in [s, e) that are working instants
WorkingMinutesIn(s, e, personName) ==
    Cardinality({m \in (s \div SecondsPerMinute) .. ((e \div SecondsPerMinute) - 1) :
                    IsWorkingInstant(m * SecondsPerMinute, personName)})

\* the number of seconds u in [s, e) that are working instants
WorkingSecondsIn(s, e, personName) ==
    Cardinality({u \in s .. (e - 1) : IsWorkingInstant(u, personName)})

\* Working time changes only on the hour, so an interval [t, r) holds a working
\* instant exactly when t or one of the full hours inside it is one.
NoWorkingInstantIn(t, r, personName) ==
    /\ (t < r => ~IsWorkingInstant(t, personName))
    /\ \A h \in (t \div SecondsPerHour) + 1 .. (r - 1) \div SecondsPerHour :
          ~IsWorkingInstant(h * SecondsPerHour, personName)

\* C1: on the whole-minute grid and for start <= end, calculateBusinessMinutes
\* returns the number of working minutes in [start, end), for the default window
\* and for every configured person; Monday 10:00 to Monday 23:00 gives 540 and
\* an interval inside one weekend day gives 0.
C1_CountsWorkingMinutes ==
    (calOp = "calc" /\ OnMinuteGrid(calStart) /\ OnMinuteGrid(calEnd) /\ calStart <= calEnd) =>
        /\ ~calResult.threw
        /\ calResult.minutes = WorkingMinutesIn(calStart, calEnd, calPerson)
        /\ (calStart = At(1, 10, 0) /\ calEnd = At(1, 23, 0) => calResult.minutes = 540)
        /\ (/\ (calStart \div SecondsPerDay) % 7 \in {0, 6}
            /\ calEnd \div SecondsPerDay = calStart \div SecondsPerDay
            => calResult.minutes = 0)

C1_Witness ==
    /\ calOp = "calc"
    /\ calStart = At(1, 10, 0)
    /\ calEnd = At(1, 23, 0)
    /\ calPerson = "Brad Goldberg"
    /\ calResult.minutes = 540

\* C2: with start and person fixed, a later end never gives fewer minutes.
C2_MonotonicInEnd ==
    calOp = "advance" => calPrev.minutes <= calResult.minutes

C2_Witness ==
    /\ calOp = "advance"
    /\ calPrev.minutes > 0
    /\ calPrev.minutes < calResult.minutes

\* C3 as claimed: from any instant that is not a working instant, one minute
\* on gives 0, also off the whole-minute grid.
C3_Claimed ==
    (/\ calOp = "calc"
     /\ calEnd = calStart + SecondsPerMinute
     /\ ~IsWorkingInstant(calStart, calPerson))
    => calResult.minutes = 0

\* C3 as amended: from an instant that is not a working instant, one minute on
\* gives 0 when fewer than 30 seconds of that minute are working time (always
\* so on the whole-minute grid) and 1 when 30 seconds or more are, which is the
\* case when the window opens at most 30 seconds after the instant.
C3_ZeroUnlessWindowOpens ==
    (/\ calOp = "calc"
     /\ calEnd = calStart + SecondsPerMinute
     /\ ~IsWorkingInstant(calStart, calPerson))
    => /\ calResult.minutes =
            (IF WorkingSecondsIn(calStart, calEnd, calPerson) < 30 THEN 0 ELSE 1)
       /\ (OnMinuteGrid(calStart) => calResult.minutes = 0)

C3_Witness ==
    /\ calOp = "calc"
    /\ calStart = At(1, 12, 59) + 30
    /\ calEnd = calStart + SecondsPerMinute
    /\ calResult.minutes = 1

\* C5: getNextBusinessHour returns the smallest working instant at or after t,
\* and t itself when t is a working instant.
C5_SmallestWorkingInstant ==
    calOp = "next" =>
        /\ calNext.done
        /\ calNext.result >= calStart
        /\ IsWorkingInstant(calNext.result, calPerson)
        /\ NoWorkingInstantIn(calStart, calNext.result, calPerson)
        /\ (IsWorkingInstant(calStart, calPerson) => calNext.result = calStart)

C5_Witness ==
    /\ calOp = "next"
    /\ calStart = At(6, 10, 30)
    /\ calNext.result = At(8, 13, 0)

\* C6: for every window, inside one day or wrapping past midnight,
\* getNextBusinessHour returns after advancing at most 7 days, and
\* calculateBusinessMinutes, whose loop walks the days, returns.
C6_Claimed ==
    /\ (calOp = "next" => calNext.done /\ calNext.days <= 7)
    /\ (calOp = "calc" => ~calResult.threw)

\* some shift of the timeline has shiftStart <= t <= shiftEnd
SomeShiftCovers(tl, t) ==
    \E i \in 1 .. Len(tl) : tl[i].shiftStart <= t /\ t <= tl[i].shiftEnd

GapSentinels == {"[Before Oct 31]", "[Weekend]", "[After Hours]", "[No Coverage]"}

\* the sentinel the priority order names for an instant no shift covers
SentinelFor(t) ==
    LET day == (t \div SecondsPerDay) % 7
        hour == (t % SecondsPerDay) \div SecondsPerHour
    IN  IF t < 5 * SecondsPerDay THEN "[Before Oct 31]"
        ELSE IF day \in {0, 6} THEN "[Weekend]"
        ELSE IF hour \in (23 .. 23) \cup (0 .. 6) THEN "[After Hours]"
        ELSE "[No Coverage]"

\* C7: findShiftAtTime returns a shift that contains t whenever some shift of
\* the timeline contains t, and a gap sentinel only when none does.
C7_Claimed ==
    shiftOp = "find" =>
        /\ (SomeShiftCovers(shifts, shiftQuery) =>
                /\ \E i \in 1 .. Len(shifts) : shiftFound = shifts[i]
                /\ shiftFound.shiftStart <= shiftQuery
                /\ shiftQuery <= shiftFound.shiftEnd)
        /\ (shiftFound.person \in GapSentinels => ~SomeShiftCovers(shifts, shiftQuery))

\* C8: when no shift contains t, the lookup returns the one sentinel the
\* priority order names (before the schedule start, weekend, after hours, no
\* coverage), with no shift boundaries.
C8_SentinelPriority ==
    (shiftOp \in {"find", "oncall"} /\ ~SomeShiftCovers(shifts, shiftQuery)) =>
        /\ shiftFound.person = SentinelFor(shiftQuery)
        /\ shiftFound.shiftStart = NULL
        /\ shiftFound.shiftEnd = NULL

\* Monday 3 November 23:00, with a timeline that has a shift but none then
C8_Witness ==
    /\ shiftOp = "find"
    /\ Len(shifts) > 0
    /\ shiftQuery = At(8, 23, 0)
    /\ ~SomeShiftCovers(shifts, shiftQuery)
    /\ shiftFound.person = "[After Hours]"

\* accountability begins at the later of the creation and the matched shift's
\* start
AccountableFrom(t) ==
    IF t.onCallShiftStart = NULL THEN t.created ELSE Max(t.created, t.onCallShiftStart)

\* the shift ended before the responder acted or, with no action, before now
ShiftEndedFirst(t, now) ==
    /\ t.onCallShiftEnd # NULL
    /\ IF t.firstOnCallActionTime # NULL THEN t.firstOnCallActionTime > t.onCallShiftEnd
       ELSE now > t.onCallShiftEnd

\* where the measurement of the on-call outcome stops
AccountableUntil(t, now) ==
    IF ShiftEndedFirst(t, now) THEN t.onCallShiftEnd
    ELSE IF t.firstOnCallActionTime # NULL THEN t.firstOnCallActionTime
    ELSE now

OnCallOutcomes == {i \in 1 .. Len(slaResults) : slaResults[i].role = "on-call"}

\* C4: businessMinutes is never negative: calculateBusinessMinutes returns a
\* value >= 0 for every pair of instants, end earlier than start included, and
\* every outcome of calculateSLAKPIs has businessMinutes >= 0, in every status.
C4_NeverNegative ==
    /\ (calOp = "calc" => ~calResult.threw /\ calResult.minutes >= 0)
    /\ (kpiOp = "evaluated" =>
            \A i \in 1 .. Len(slaResults) : slaResults[i].businessMinutes >= 0)

\* created Monday 10:00 before the shift 13:00-22:00, no action, evaluated
\* after the shift's end
C4_Witness ==
    /\ kpiOp = "evaluated"
    /\ ticket.created = At(8, 10, 0)
    /\ Len(slaResults) > 0
    /\ slaResults[1].status = "pending"
    /\ slaResults[1].shiftEnded
    /\ slaResults[1].businessMinutes = 540

\* C9: in the on-call pathway the measurement starts at the shift's start when
\* the ticket was created before the matched shift began and at the creation
\* otherwise, so no minute before the shift's start is charged; created
\* Saturday, shift from Monday 13:00, action Monday 14:30 and a goal of 240
\* give businessMinutes 90 and met.
C9_AccountabilityStart ==
    kpiOp = "evaluated" =>
        \A i \in OnCallOutcomes :
            LET o == slaResults[i]
                from == AccountableFrom(ticket)
                until == AccountableUntil(ticket, kpiNow)
            IN  /\ o.createdBeforeShift =
                       (ticket.onCallShiftStart # NULL /\ ticket.created < ticket.onCallShiftStart)
                /\ o.businessMinutes =
                       (IF ShiftEndedFirst(ticket, kpiNow) THEN (until - from) \div SecondsPerMinute
                        ELSE IF until < from THEN 0
                        ELSE WorkingMinutesIn(from, until, o.manager))
                /\ (ticket.onCallShiftStart # NULL =>
                       o.businessMinutes * SecondsPerMinute
                           <= Max(0, until - ticket.onCallShiftStart))
                /\ (/\ (ticket.created \div SecondsPerDay) % 7 = 6
                    /\ ticket.onCallShiftStart = At(8, 13, 0)
                    /\ ticket.firstOnCallActionTime = At(8, 14, 30)
                    /\ o.goalMinutes = 240
                    => o.businessMinutes = 90 /\ o.met)

C9_Witness ==
    /\ kpiOp = "evaluated"
    /\ ticket.created = At(6, 10, 0)
    /\ ticket.onCallShiftStart = At(8, 13, 0)
    /\ ticket.firstOnCallActionTime = At(8, 14, 30)
    /\ Len(slaResults) > 0
    /\ slaResults[1].role = "on-call"
    /\ slaResults[1].goalMinutes = 240
    /\ slaResults[1].businessMinutes = 90
    /\ slaResults[1].met

\* C10: met is businessMinutes <= goalMinutes for every outcome, except the
\* on-call outcomes where the shift ended first (the responder acted after the
\* shift's end, or did not act and now is past it), which are never met;
\* created Monday 21:30, action Tuesday 14:00 and a goal of 240 give
\* businessMinutes 90 and met when no shift ended in between.
C10_MetFromMinutes ==
    kpiOp = "evaluated" =>
        \A i \in 1 .. Len(slaResults) :
            LET o == slaResults[i]
                forced == o.role = "on-call" /\ ShiftEndedFirst(ticket, kpiNow)
            IN  /\ o.met = (IF forced THEN FALSE ELSE o.businessMinutes <= o.goalMinutes)
                /\ forced = (\/ o.status = "responded-after-shift"
                             \/ (o.status = "pending" /\ o.shiftEnded))
                /\ (/\ o.role = "on-call"
                    /\ ~forced
                    /\ ticket.created = At(8, 21, 30)
                    /\ ticket.firstOnCallActionTime = At(9, 14, 0)
                    /\ o.goalMinutes = 240
                    => o.businessMinutes = 90 /\ o.met)

C10_Witness ==
    /\ kpiOp = "evaluated"
    /\ ticket.created = At(8, 21, 30)
    /\ ticket.firstOnCallActionTime = At(9, 14, 0)
    /\ Len(slaResults) > 0
    /\ slaResults[1].role = "on-call"
    /\ slaResults[1].status = "responded"
    /\ slaResults[1].goalMinutes = 240
    /\ slaResults[1].businessMinutes = 90
    /\ slaResults[1].met

\* C11: in both forced-breach cases (responded-after-shift, pending with
\* shiftEnded) businessMinutes is the number of working minutes of the
\* responder's window from the accountability start to the shift's end.
C11_Claimed ==
    kpiOp = "evaluated" =>
        \A i \in OnCallOutcomes :
            ShiftEndedFirst(ticket, kpiNow) =>
                slaResults[i].businessMinutes =
                    WorkingMinutesIn(AccountableFrom(ticket), ticket.onCallShiftEnd,
                                     slaResults[i].manager)

\* C12: an on-call outcome has status responded-after-shift iff a responder
\* action exists and is later than the shift's end, responded iff one exists
\* and is not later, pending with shiftEnded iff none exists and now is past the
\* shift's end, pending without shiftEnded iff none exists and now is not past
\* it; a ticket has at most one on-call outcome and no other status occurs.
C12_OnCallStatus ==
    kpiOp = "evaluated" =>
        /\ Cardinality(OnCallOutcomes) <= 1
        /\ \A i \in OnCallOutcomes :
              LET o == slaResults[i]
                  acted == ticket.firstOnCallActionTime # NULL
                  actedLate == /\ acted
                               /\ ticket.onCallShiftEnd # NULL
                               /\ ticket.firstOnCallActionTime > ticket.onCallShiftEnd
                  nowLate == ticket.onCallShiftEnd # NULL /\ kpiNow > ticket.onCallShiftEnd
              IN  /\ o.status \in {"responded", "responded-after-shift", "pending"}
                  /\ (o.status = "responded-after-shift") = actedLate
                  /\ (o.status = "responded") = (acted /\ ~actedLate)
                  /\ (o.status = "pending" /\ o.shiftEnded) = (~acted /\ nowLate)
                  /\ (o.status = "pending" /\ ~o.shiftEnded) = (~acted /\ ~nowLate)
                  /\ (o.status # "pending" => ~o.shiftEnded)

\* the shift ends Monday 22:00 with no action, evaluated Monday 23:00
C12_Witness ==
    /\ kpiOp = "evaluated"
    /\ ticket.onCallShiftEnd = At(8, 22, 0)
    /\ ticket.firstOnCallActionTime = NULL
    /\ kpiNow = At(8, 23, 0)
    /\ Len(slaResults) > 0
    /\ slaResults[1].role = "on-call"
    /\ slaResults[1].status = "pending"
    /\ slaResults[1].shiftEnded
    /\ ~slaResults[1].met

AssigneeOutcomes == {i \in 1 .. Len(slaResults) : slaResults[i].role = "assignee"}

\* the ticket has an SLA entry with a goal duration
HasGoal(t) == Len(t.sla) > 0 /\ t.sla[1].goalDuration # NULL

\* C13: a ticket with a goal, a current owner and an assignment time gives
\* exactly one assignee outcome: responded iff the owner commented (minutes to
\* the comment), resolved-no-comment iff there is no comment and the ticket is
\* resolved (minutes to the resolution), no-response iff neither (minutes to
\* now); the minutes are the working minutes of the owner's window from the
\* assignment, and met = businessMinutes <= goalMinutes.
C13_AssigneeOutcome ==
    (/\ kpiOp = "evaluated"
     /\ HasGoal(ticket)
     /\ ticket.assigneeCurrent # ""
     /\ ticket.firstAssignmentTime # NULL) =>
        /\ Cardinality(AssigneeOutcomes) = 1
        /\ \A i \in AssigneeOutcomes :
              LET o == slaResults[i]
                  commented == ticket.firstAssigneeCommentTime # NULL
                  resolved == ticket.resolutionDate # NULL
                  until == IF commented THEN ticket.firstAssigneeCommentTime
                           ELSE IF resolved THEN ticket.resolutionDate
                           ELSE kpiNow
              IN  /\ o.manager = ticket.assigneeCurrent
                  /\ (o.status = "responded") = commented
                  /\ (o.status = "resolved-no-comment") = (~commented /\ resolved)
                  /\ (o.status = "no-response") = (~commented /\ ~resolved)
                  /\ o.businessMinutes =
                         WorkingMinutesIn(ticket.firstAssignmentTime, until, o.manager)
                  /\ o.met = (o.businessMinutes <= o.goalMinutes)

\* assigned Monday 14:00, resolved Monday 23:00 without a comment, goal 240
C13_Witness ==
    /\ kpiOp = "evaluated"
    /\ ticket.firstAssignmentTime = At(8, 14, 0)
    /\ ticket.resolutionDate = At(8, 23, 0)
    /\ \E i \in AssigneeOutcomes :
          /\ slaResults[i].status = "resolved-no-comment"
          /\ slaResults[i].goalMinutes = 240
          /\ slaResults[i].businessMinutes = 480
          /\ ~slaResults[i].met

\* C14: a ticket without an SLA entry, or whose first SLA entry has a
\* goalDuration of null or 0, appears in no outcome record of either pathway.
C14_Claimed ==
    (/\ kpiOp = "evaluated"
     /\ (Len(ticket.sla) = 0 \/ ticket.sla[1].goalDuration \in {NULL, 0}))
    => slaResults = <<>>

\* the logins and the names of the recognized on-call roster
RosterLogins ==
    {"bgoldberg", "jmaciorowski", "atakkar", "gsemenenko", "rdahl", "esuhov", "mkuklin"}

\* who was on call is a gap sentinel, or somebody outside the roster
NotAnAccountableActor(who) ==
    /\ who # ""
    /\ (who \in GapSentinels \/ who \notin (RosterLogins \cup ON_CALL_MANAGERS))

\* C15: when who was on call is a gap sentinel or is not on the roster, the
\* ticket has no on-call outcome, the per-actor tables fed by the on-call
\* pathway have no row under that name, and the assignee outcome is still
\* produced when the ticket (having an SLA entry) has an owner and an
\* assignment time.
C15_NoActorNoOnCallOutcome ==
    (kpiOp = "evaluated" /\ NotAnAccountableActor(ticket.whoWasOnCall)) =>
        /\ OnCallOutcomes = {}
        /\ DOMAIN kpis.onCallManagerKPIs = {}
        /\ kpis.onCall.totalTickets = 0
        /\ ticket.whoWasOnCall \notin DOMAIN kpis.managerKPIs
        /\ ((/\ Len(ticket.sla) > 0
             /\ ticket.assigneeCurrent # ""
             /\ ticket.firstAssignmentTime # NULL)
            => /\ Cardinality(AssigneeOutcomes) = 1
               /\ DOMAIN kpis.managerKPIs = {ticket.assigneeCurrent})

\* created on Saturday, nobody on call, the owner commented
C15_Witness ==
    /\ kpiOp = "evaluated"
    /\ ticket.whoWasOnCall = "[Weekend]"
    /\ ticket.firstOnCallActionTime # NULL
    /\ Len(slaResults) = 1
    /\ slaResults[1].role = "assignee"
    /\ slaResults[1].status = "responded"
    /\ DOMAIN kpis.onCallManagerKPIs = {}

\* somebody acted on the issue, and nobody who acted is a recognized responder
OnlyOutsidersActed(i) ==
    /\ Len(i.histories) + Len(i.comments) > 0
    /\ \A k \in 1 .. Len(i.histories) : i.histories[k].author \notin SLA_RESPONDERS
    /\ \A k \in 1 .. Len(i.comments) : i.comments[k].author \notin SLA_RESPONDERS

\* C16: a ticket whose only actions (comments, assignments) came from actors
\* outside the recognized-responder set has no on-call outcome at all.
C16_Claimed ==
    (kpiOp = "evaluated" /\ OnlyOutsidersActed(issue)) => OnCallOutcomes = {}

\* the number of outcomes with met = true
OutcomesMet == Cardinality({i \in 1 .. Len(slaResults) : slaResults[i].met})

\* 100 * num / den to one decimal (in tenths), an exact tie rounded up
PercentTenths(num, den) == (2000 * num + den) \div (2 * den)

\* C17: the overall compliance rate is 100 * (outcomes with met = true) /
\* (outcomes, each of which has a goal), to one decimal, and 0 with no outcome;
\* tickets without a goal or without an outcome are not in the denominator.
C17_Claimed ==
    kpiOp = "evaluated" =>
        /\ kpis.overall.complianceRate.kind = "number"
        /\ kpis.overall.complianceRate.tenths =
              (IF Len(slaResults) = 0 THEN 0 ELSE PercentTenths(OutcomesMet, Len(slaResults)))

\* the outcomes of an actor in a role (any role when role is "")
OutcomesOf(actor, role) ==
    {i \in 1 .. Len(slaResults) :
        slaResults[i].manager = actor /\ (role = "" \/ slaResults[i].role = role)}

MetAmong(outcomes) == Cardinality({i \in outcomes : slaResults[i].met})

\* the met counts of the rows of a per-actor table, summed
RECURSIVE SumOfMet(_, _)
SumOfMet(table, actors) ==
    IF actors = {} THEN 0
    ELSE LET a == CHOOSE x \in actors : TRUE
         IN  table[a].met + SumOfMet(table, actors \ {a})

\* C19: in each per-actor table (on-call, assignee, combined) an actor's met
\* count is the number of the actor's outcomes with met = true and the
\* compliance rate is 100 * met / (the actor's outcomes), so the met counts of
\* the on-call table sum to the on-call pathway's met count.
C19_Claimed ==
    kpiOp = "evaluated" =>
        /\ \A a \in DOMAIN kpis.onCallManagerKPIs :
              /\ kpis.onCallManagerKPIs[a].met = MetAmong(OutcomesOf(a, "on-call"))
              /\ kpis.onCallManagerKPIs[a].complianceRate.tenths =
                    PercentTenths(MetAmong(OutcomesOf(a, "on-call")),
                                  Cardinality(OutcomesOf(a, "on-call")))
        /\ \A a \in DOMAIN kpis.managerKPIs :
              /\ kpis.managerKPIs[a].met = MetAmong(OutcomesOf(a, ""))
              /\ kpis.managerKPIs[a].complianceRate.tenths =
                    PercentTenths(MetAmong(OutcomesOf(a, "")), Cardinality(OutcomesOf(a, "")))
        /\ \A a \in DOMAIN kpis.developerKPIs :
              OutcomesOf(a, "assignee") # {} =>
                  /\ kpis.developerKPIs[a].slaMet = MetAmong(OutcomesOf(a, "assignee"))
                  /\ kpis.developerKPIs[a].slaCompliance.tenths =
                        PercentTenths(MetAmong(OutcomesOf(a, "assignee")),
                                      Cardinality(OutcomesOf(a, "assignee")))
        /\ SumOfMet(kpis.onCallManagerKPIs, DOMAIN kpis.onCallManagerKPIs) = kpis.onCall.metSLA

\* the on-call outcome of a ticket has met = TRUE, or has met = FALSE
OnCallOutcomeIs(key, met) ==
    \E i \in 1 .. Len(slaResults) :
        /\ slaResults[i].ticket = key
        /\ slaResults[i].role = "on-call"
        /\ slaResults[i].met = met

TicketsIn(buckets, b, met) ==
    Cardinality({k \in 1 .. Len(metrics) :
                    buckets[k] = b /\ OnCallOutcomeIs(metrics[k].key, met)})

\* C20: in the per-day-of-week and per-hour-of-day breakdowns the tickets are
\* bucketed by creation time, and a bucket's met count is the number of its
\* tickets whose on-call outcome has met = true, its breached count the number
\* whose on-call outcome has met = false.
C20_Claimed ==
    kpiOp = "evaluated" =>
        /\ \A d \in DOMAIN kpis.byDayOfWeek :
              /\ kpis.byDayOfWeek[d].met = TicketsIn(dayBuckets(metrics), d, TRUE)
              /\ kpis.byDayOfWeek[d].breached = TicketsIn(dayBuckets(metrics), d, FALSE)
        /\ \A h \in DOMAIN kpis.byHourOfDay :
              /\ kpis.byHourOfDay[h].met = TicketsIn(hourBuckets(metrics), h, TRUE)
              /\ kpis.byHourOfDay[h].breached = TicketsIn(hourBuckets(metrics), h, FALSE)

\* C18: a rate whose denominator is zero is 0 and never NaN or an infinity:
\* the compliance rates of a run without outcomes, and the ticket growth of
\* comparePeriods and of getQuarterlyComparison when the previous period has
\* no tickets.
C18_Claimed ==
    /\ \A i \in 1 .. Len(history) :
          history[i].kpis.overall.complianceRate.kind = "number"
    /\ (histOp = "compared" /\ comparison.hasPrevious =>
            comparison.ticketGrowth.kind = "number")
    /\ (histOp = "quarterly" /\ Len(quarterly) > 0 =>
            \A i \in 1 .. Len(quarterly[1].trends) :
                quarterly[1].trends[i].ticketGrowth.kind = "number")

\* the results of catResults whose minutes (businessMinutes when present, else
\* responseMinutes when present) satisfy a test given as a set of values
CatCount(values) ==
    Cardinality({i \in 1 .. Len(catResults) :
        \/ catResults[i].businessMinutes # NULL /\ catResults[i].businessMinutes \in values
        \/ /\ catResults[i].businessMinutes = NULL
           /\ catResults[i].responseMinutes # NULL
           /\ catResults[i].responseMinutes \in values})

CatAbsent ==
    Cardinality({i \in 1 .. Len(catResults) :
        catResults[i].businessMinutes = NULL /\ catResults[i].responseMinutes = NULL})

CatSum ==
    categories.under1h + categories.from1to2h + categories.from2to4h
        + categories.from4to8h + categories.over8h + categories.noResponse

RECURSIVE SubList(_, _, _)
SubList(list, P, i) ==
    IF i > Len(list) THEN <<>>
    ELSE (IF i \in P THEN <<list[i]>> ELSE <<>>) \o SubList(list, P, i + 1)

\* the summary of each part of metrics aggregated alone, at the same time
PartSummaries ==
    [P \in SUBSET (1 .. Len(metrics)) |->
        LET list == SubList(metrics, P, 1)
            results == AllResults(list, kpiNow, 1)
        IN  [kpis |-> KPIsOf(list, results), details |-> results]]

\* a rate and an average recomputed from totals
RateFromTotals(met, total) ==
    IF total > 0 THEN [kind |-> "number", tenths |-> PercentTenths(met, total)]
    ELSE [kind |-> "number", tenths |-> 0]

RECURSIVE MinutesOver(_, _)
MinutesOver(details, chosen) ==
    IF chosen = {} THEN 0
    ELSE LET i == CHOOSE x \in chosen : TRUE
         IN  details[i].businessMinutes + MinutesOver(details, chosen \ {i})

AverageFromTotals(details, chosen) ==
    IF chosen = {} THEN [kind |-> "N/A", hours |-> 0, minutes |-> 0]
    ELSE LET avg == MinutesOver(details, chosen) \div Cardinality(chosen)
         IN  [kind |-> "time", hours |-> avg \div 60, minutes |-> avg % 60]

\* two summaries of counts merged: counts added, the rate recomputed, the
\* average recomputed over the outcomes chosen from both parts' details
MergedCounts(a, b, details, chosen) ==
    [totalTickets |-> a.totalTickets + b.totalTickets,
     metSLA |-> a.metSLA + b.metSLA,
     breachedSLA |-> a.breachedSLA + b.breachedSLA,
     pendingSLA |-> a.pendingSLA + b.pendingSLA,
     complianceRate |-> RateFromTotals(a.metSLA + b.metSLA, a.totalTickets + b.totalTickets),
     avgResponseTime |-> AverageFromTotals(details, chosen)]

CountIn(table, key, field) == IF key \in DOMAIN table THEN table[key][field] ELSE 0

\* two per-actor tables merged; forAverage: the statuses averaged over, role:
\* the role of the table ("" for both)
MergedActors(a, b, details, role, forAverage) ==
    [mgr \in DOMAIN a \cup DOMAIN b |->
        [met |-> CountIn(a, mgr, "met") + CountIn(b, mgr, "met"),
         breached |-> CountIn(a, mgr, "breached") + CountIn(b, mgr, "breached"),
         pending |-> CountIn(a, mgr, "pending") + CountIn(b, mgr, "pending"),
         total |-> CountIn(a, mgr, "total") + CountIn(b, mgr, "total"),
         complianceRate |->
            RateFromTotals(CountIn(a, mgr, "met") + CountIn(b, mgr, "met"),
                           CountIn(a, mgr, "total") + CountIn(b, mgr, "total")),
         avgResponseTime |->
            AverageFromTotals(details,
                {i \in 1 .. Len(details) :
                    /\ details[i].manager = mgr
                    /\ (role = "" \/ details[i].role = role)
                    /\ details[i].status \in forAverage})]]

\* two per-day or per-hour tables merged
MergedTimes(a, b) ==
    [k \in DOMAIN a \cup DOMAIN b |->
        [total |-> CountIn(a, k, "total") + CountIn(b, k, "total"),
         met |-> CountIn(a, k, "met") + CountIn(b, k, "met"),
         breached |-> CountIn(a, k, "breached") + CountIn(b, k, "breached"),
         complianceRate |->
            RateFromTotals(CountIn(a, k, "met") + CountIn(b, k, "met"),
                           CountIn(a, k, "total") + CountIn(b, k, "total"))]]

MergedHistogram(a, b) ==
    [f \in DOMAIN a |-> a[f] + b[f]]

AllStatuses ==
    {"pending", "responded", "responded-after-shift", "resolved", "resolved-no-comment",
     "no-response"}

\* the summaries of two parts merged
Merged(a, b) ==
    LET details == a.details \o b.details
        all == 1 .. Len(details)
    IN  [overall |->
            MergedCounts(a.kpis.overall, b.kpis.overall, details,
                         {i \in all : details[i].status = "responded"}),
         onCall |->
            MergedCounts(a.kpis.onCall, b.kpis.onCall, details,
                         {i \in all : details[i].role = "on-call"
                                        /\ details[i].status = "responded"}),
         assignee |->
            MergedCounts(a.kpis.assignee, b.kpis.assignee, details,
                         {i \in all : details[i].role = "assignee"
                                        /\ details[i].status \in {"responded", "resolved"}}),
         managerKPIs |->
            MergedActors(a.kpis.managerKPIs, b.kpis.managerKPIs, details, "", AllStatuses),
         onCallManagerKPIs |->
            MergedActors(a.kpis.onCallManagerKPIs, b.kpis.onCallManagerKPIs, details,
                         "on-call", {"responded", "resolved"}),
         byDayOfWeek |-> MergedTimes(a.kpis.byDayOfWeek, b.kpis.byDayOfWeek),
         byHourOfDay |-> MergedTimes(a.kpis.byHourOfDay, b.kpis.byHourOfDay),
         responseTimeDistribution |->
            MergedHistogram(a.kpis.responseTimeDistribution, b.kpis.responseTimeDistribution)]

\* the values of kpis that a merge yields
MergeableValues(k) ==
    [overall |-> k.overall, onCall |-> k.onCall, assignee |-> k.assignee,
     managerKPIs |-> k.managerKPIs, onCallManagerKPIs |-> k.onCallManagerKPIs,
     byDayOfWeek |-> k.byDayOfWeek, byHourOfDay |-> k.byHourOfDay,
     responseTimeDistribution |-> k.responseTimeDistribution]

Reordered(perm) == [i \in 1 .. Len(metrics) |-> metrics[perm[i]]]

\* each reordering of metrics aggregated at the same time: the summary, the
\* order of the per-actor tables, the top performer saveKPISnapshot would store
ReorderedSummaries ==
    [perm \in Permutations(1 .. Len(metrics)) |->
        LET list == Reordered(perm)
            results == AllResults(list, kpiNow, 1)
            k == KPIsOf(list, results)
        IN  [kpis |-> k,
             managerOrder |-> managersByRate(k.managerKPIs, results),
             onCallOrder |-> managersByRate(k.onCallManagerKPIs, SelectSeq(results, isOnCall)),
             topPerformer |-> topPerformerOf(k, results)]]

\* C23: at a fixed evaluation time every reordering of the tickets yields the
\* same summary values, the same per-actor tables in the same order, and the
\* same top performer for saveKPISnapshot.
C23_Claimed ==
    kpiOp = "evaluated" =>
        LET runs == ReorderedSummaries
        IN  \A p, q \in DOMAIN runs : runs[p] = runs[q]

\* ... the counts, rates and tables are the same, the order of the rows apart
C23_ValuesOnly ==
    kpiOp = "evaluated" =>
        LET runs == ReorderedSummaries
        IN  \A p, q \in DOMAIN runs : runs[p].kpis = runs[q].kpis

\* C24: a ticket whose first on-call action time does not parse has no on-call
\* outcome, one whose assignment or assignee comment time does not parse has no
\* assignee outcome (so none with met = true), and the other pathway is still
\* evaluated when its own timestamps are valid.
C24_Claimed ==
    kpiOp = "evaluated" =>
        /\ (ticket.firstOnCallActionTime = INVALID => OnCallOutcomes = {})
        /\ (INVALID \in {ticket.firstAssignmentTime, ticket.firstAssigneeCommentTime} =>
               AssigneeOutcomes = {})

\* the issues of the batch that are well-formed, as tickets
WellFormed ==
    SelectSeq(batch, LAMBDA b : \A k \in 1 .. Len(b.issue.histories) :
                                    "items" \notin DOMAIN b.issue.histories[k]
                                        \/ b.issue.histories[k].items)

SoundTickets ==
    SelectSeq(MetricsOfBatch(WellFormed), LAMBDA t : t.whoWasOnCall # NotAString)

\* C25: a run over a batch with one malformed issue (a history entry without
\* items, a whoWasOnCall that is not a string) completes and returns the
\* outcomes of all the other tickets.
C25_Claimed ==
    batchOp \in {"done", "threw"} =>
        /\ batchOp = "done"
        /\ \A t \in {SoundTickets[k] : k \in 1 .. Len(SoundTickets)} :
              \A r \in {x \in {TicketResults(t, kpiNow)[j] :
                                  j \in 1 .. Len(TicketResults(t, kpiNow))} : TRUE} :
                 \E i \in 1 .. Len(slaResults) : slaResults[i] = r

\* the on-call outcome of the ticket in a list of results, or none
OnCallOf(results) == SelectSeq(results, LAMBDA r : r.role = "on-call")

\* C26: for a ticket without an on-call action and with fixed data, an on-call
\* outcome that has met = false at one evaluation has met = false at every
\* later evaluation, under the same manager.
C26_BreachIsPermanent ==
    [][(/\ kpiOp = "loaded"
        /\ kpiOp' = "evaluated"
        /\ ticket.timeToFirstOnCallActionMinutes = NULL
        /\ Len(OnCallOf(slaResults)) > 0
        /\ ~OnCallOf(slaResults)[1].met)
       => /\ Len(OnCallOf(slaResults')) = 1
          /\ ~OnCallOf(slaResults')[1].met
          /\ OnCallOf(slaResults')[1].manager = OnCallOf(slaResults)[1].manager
          /\ kpiNow' >= kpiNow]_vars

\* an evaluation before the end of the shift found the goal exceeded, and the
\* ticket is about to be evaluated after the end of the shift
C26_Witness ==
    /\ kpiOp = "loaded"
    /\ ticket.timeToFirstOnCallActionMinutes = NULL
    /\ Len(OnCallOf(slaResults)) = 1
    /\ ~OnCallOf(slaResults)[1].met
    /\ ~OnCallOf(slaResults)[1].shiftEnded
    /\ ticket.onCallShiftEnd # NULL
    /\ kpiNow <= ticket.onCallShiftEnd
    /\ \E now \in KpiNows : now > ticket.onCallShiftEnd

\* the snapshot a step wrote: the one of history' that history does not hold
Written(before, after) ==
    {after[i] : i \in 1 .. Len(after)} \ {before[i] : i \in 1 .. Len(before)}

PeriodsOf(snapshots) == {snapshots[i].period : i \in 1 .. Len(snapshots)}

\* at most 50 snapshots, newest first, no two of one period
Orderly(snapshots) ==
    /\ Len(snapshots) <= 50
    /\ \A i \in 1 .. Len(snapshots) - 1 :
          snapshots[i].timestamp >= snapshots[i + 1].timestamp
    /\ Cardinality(PeriodsOf(snapshots)) = Len(snapshots)

\* C27: after every save, from an empty history, the history holds at most 50
\* snapshots, newest first, no two of one period; a save of a stored period
\* replaces its snapshot and leaves the count unchanged; a save of a new period
\* adds one snapshot, and past 50 drops the oldest.
C27_SaveKeepsHistory ==
    [][histOp' = "saved" =>
          \E w \in Written(history, history') :
             /\ Orderly(history')
             /\ Written(history, history') = {w}
             /\ IF w.period \in PeriodsOf(history)
                THEN /\ Len(history') = Len(history)
                     /\ PeriodsOf(history') = PeriodsOf(history)
                ELSE IF Len(history) < 50
                THEN /\ Len(history') = Len(history) + 1
                     /\ PeriodsOf(history') = PeriodsOf(history) \cup {w.period}
                ELSE /\ Len(history') = 50
                     /\ \E d \in 1 .. Len(history) :
                           /\ \A i \in 1 .. Len(history) :
                                 history[d].timestamp <= history[i].timestamp
                           /\ PeriodsOf(history') =
                                 (PeriodsOf(history) \ {history[d].period}) \cup {w.period}]_vars

\* a full history into which a new period and a stored period have been saved
C27_Witness ==
    /\ Len(history) = 50
    /\ latestWeek(history, 1) > 50
    /\ newestTimestamp(history, 1) > latestWeek(history, 1)

SearchRequests == {i \in 1 .. Len(fetch.log) : fetch.log[i].url = "/rest/api/3/search"}

\* C28: when every search is answered with 410 and a project key is set,
\* fetchIssues does not throw, sends a bounded number of requests, and has
\* sent the service desk request, after the searches, by the time it returns.
C28_Claimed ==
    (/\ fetchOp \in {"returned", "threw"}
     /\ fetch.projectKey
     /\ SearchRequests # {}
     /\ \A i \in SearchRequests : fetch.log[i].status = 410)
    => /\ fetchOp = "returned"
       /\ Len(fetch.log) <= 5
       /\ \E j \in 1 .. Len(fetch.log) :
             /\ fetch.log[j].url = "/rest/servicedeskapi/request"
             /\ \A i \in SearchRequests : i < j

\* met, breached and pending of a summary add up to `outcomes`
AddsUpTo(summary, outcomes) ==
    summary.metSLA + summary.breachedSLA + summary.pendingSLA = outcomes

\* C29: in the overall summary and in the summary of each pathway, metSLA +
\* breachedSLA + pendingSLA is the number of outcomes.
C29_Claimed ==
    kpiOp = "evaluated" =>
        /\ AddsUpTo(kpis.overall, Len(slaResults))
        /\ AddsUpTo(kpis.onCall, Len(OnCallOf(slaResults)))
        /\ AddsUpTo(kpis.assignee, Len(SelectSeq(slaResults, LAMBDA r : r.role = "assignee")))

\* a rate that is a number from 0.0 to 100.0
IsPercentage(rate) == rate.kind = "number" /\ rate.tenths >= 0 /\ rate.tenths <= 1000

AllPercentages(rows) == \A k \in DOMAIN rows : IsPercentage(rows[k].complianceRate)

\* C30: every compliance rate of calculateSLAKPIs (overall, on-call, assignee,
\* per actor, per day, per hour) is a number from 0 to 100.
C30_Claimed ==
    kpiOp = "evaluated" =>
        /\ IsPercentage(kpis.overall.complianceRate)
        /\ IsPercentage(kpis.onCall.complianceRate)
        /\ IsPercentage(kpis.assignee.complianceRate)
        /\ AllPercentages(kpis.managerKPIs)
        /\ AllPercentages(kpis.onCallManagerKPIs)
        /\ AllPercentages(kpis.byDayOfWeek)
        /\ AllPercentages(kpis.byHourOfDay)

====
